---- MODULE Spec2Model ----
(***************************************************************************)
(* A model of the resilient ingestion layer of corp-spend-tracking-politics *)
(* (backend/data_collection/ingestion): the retry wrapper                   *)
(* ExponentialBackoff, robust_api_request, the circuit breaker, the         *)
(* APICallCounter and the source adapters' fetch_data; the entity           *)
(* resolution of DataProcessor and the SpendingCalculator.                  *)
(*                                                                          *)
(* Each component has its own variables and its own specification; the      *)
(* variables of the other components stay at their initial values.          *)
(***************************************************************************)
EXTENDS Integers, Sequences, FiniteSets, TLC

VARIABLES
    \* ---- ExponentialBackoff.__call__ / robust_api_request ----
    max_retries,      \* self.max_retries of the wrapping ExponentialBackoff
    wrapped,          \* which function is wrapped: "op" (arbitrary) or "make_request"
    r_pc,             \* position in wrapper: "try", "sleep", "returned", "raised"
    attempt,          \* loop variable of `for attempt in range(max_retries + 1)`
    last_exception,   \* wrapper's last_exception (NoError before any failure)
    r_result,         \* value returned by the wrapper, "none" until it returns
    r_raised,         \* error raised out of the wrapper, NoError until it raises
    r_hist,           \* outcomes of the invocations of the wrapped function, in order
    r_net,            \* what the network did on each HTTP request, in order
    sleeps,           \* number of time.sleep calls made by the wrapper
    backoff,          \* base_delay, max_delay, exponential_base, jitter of the wrapper
    r_wait,           \* the delay calculate_delay gave last, and the delay slept
    \* ---- circuit_breaker ----
    failure_threshold, \* per wrapped function: failure_threshold of its decorator
    recovery_timeout,  \* per wrapped function: recovery_timeout of its decorator
    state,             \* per wrapped function: the closure's state dict
    now,               \* time.time()
    b_last,            \* the latest call through a breaker and what became of it
    consec,            \* per wrapped function: consecutive failed invocations of the
                       \* wrapped function since its last success or recovery reset
    b_since,           \* per wrapped function: when it last raised, and whether
                       \* calls were rejected since
    \* ---- APICallCounter (api_counter) under threads ----
    calls,             \* self.calls: api name -> reference of its stats dict, 0 if absent
    dicts,             \* the stats dicts ever created, by reference
    t_pc,              \* per thread: position inside record_call
    t_api,             \* per thread: argument api_name
    t_success,         \* per thread: argument success
    t_ref,             \* per thread: the stats dict loaded for the pending +=
    t_tmp,             \* per thread: the value read for the pending +=
    t_left,            \* per thread: record_call invocations still to make
    invoked,           \* per api name: number of record_call invocations started
    \* ---- the source adapters' fetch_data ----
    adapter,           \* "fec", "lobbying", "irs" or "sec"
    api_key,           \* self.api_key, read from the environment at construction
    year,              \* the year fetch_data is called with
    entities,          \* committee_ids / quarters / foundation_eins / company_ciks
    upstream,          \* per entity: how the upstream API behaves for it
    f_pc,              \* position in fetch_data
    f_idx,             \* index in entities of the entity being fetched
    f_total,           \* contributions / lobbying_reports / grants / financial_data
    f_result,          \* what fetch_data returned
    f_requested,       \* the entities an HTTP request has been issued for
    \* FECIngestion._fetch_committee_contributions and its decorators
    o_attempt,         \* attempt of retry_on_failure around the call
    page,              \* params['page']
    i_attempt,         \* attempt of the backoff inside robust_api_request
    contributions,     \* the local list of _fetch_committee_contributions
    fec_state,         \* state dict of the circuit_breaker around the method
    fec_time,          \* current_time of the circuit_breaker wrapper
    tracked,           \* api_counter.calls['fec_committee_contributions']
    \* ---- DataProcessor._normalize_company_name ----
    n_pc,              \* "start" before the calls, "done" after them
    n_name,            \* the argument name, a sequence of characters
    n_once,            \* _normalize_company_name(name)
    n_twice,           \* _normalize_company_name(_normalize_company_name(name))
    \* ---- DataProcessor and the store (Company, FinancialSummary) ----
    companies,         \* the rows of Company, by primary key
    summaries,         \* the rows of FinancialSummary, in order of creation
    s_ops,             \* number of rows at the start plus calls made so far
    s_from_empty,      \* the store had no Company at the start
    s_prev,            \* the call of _find_or_create_company before the latest
    s_last,            \* the latest call of _find_or_create_company
    s_returned,        \* per arguments resolved so far: the Company returned last
    s_latest,          \* per (company, fiscal_year): the record processed last
    dependents,        \* number of rows of PoliticalContribution, LobbyingReport, CharitableGrant
    p_skipped,         \* the record processed last had no organization name
    \* ---- two ingestion runs in _find_or_create_company at the same time ----
    race_args,         \* the name, ticker and cik both runs resolve
    race_unseen,       \* no Company matched the arguments at the start
    race_pc,           \* per run: "find", "create" or "done"
    race_company,      \* per run: the local company (a primary key, 0 for None)
    \* ---- SpendingCalculator ----
    sp_db,             \* the rows of LobbyingReport, CharitableGrant, PoliticalContribution
    sp_pc,             \* "start" before the call, "done" after it
    sp_q,              \* the call made and its arguments
    sp_result,         \* what the call returned
    \* ---- ExponentialBackoff.calculate_delay ----
    d_cfg,             \* base_delay, max_delay, exponential_base, jitter of the instance
    d_attempt,         \* the argument of the next call of calculate_delay
    d_delay,           \* what the latest call returned (milliseconds)
    d_prev,            \* what the call before it returned
    \* ---- IRSIngestion._classify_recipient ----
    c_pc,              \* "start" before the call, "done" after it
    c_name,            \* recipient_name, a sequence of characters
    c_description,     \* description, a sequence of characters
    c_category,        \* what the call returned
    \* ---- api_counter used by one thread through track_api_calls ----
    q_calls,           \* api_counter.calls: api name -> total, success, failed
    q_errors,          \* api_counter.errors: api name -> error type -> count
    q_ops,             \* number of operations made
    q_since,           \* per api name: invocations since the latest reset
    q_last             \* the latest operation and how it ended

retryVars == <<max_retries, wrapped, r_pc, attempt, last_exception, r_result,
               r_raised, r_hist, r_net, sleeps, backoff, r_wait>>

breakerVars == <<failure_threshold, recovery_timeout, state, now, b_last, consec,
                 b_since>>

counterVars == <<calls, dicts, t_pc, t_api, t_success, t_ref, t_tmp, t_left, invoked>>

fetchVars == <<adapter, api_key, year, entities, upstream, f_pc, f_idx, f_total,
               f_result, f_requested>>

fecVars == <<o_attempt, page, i_attempt, contributions, fec_state, fec_time,
             tracked>>

normVars == <<n_pc, n_name, n_once, n_twice>>

storeVars == <<companies, summaries, s_ops, s_from_empty, s_prev, s_last,
               s_returned, s_latest,
              dependents, p_skipped>>

raceVars == <<race_args, race_unseen, race_pc, race_company>>

spendVars == <<sp_db, sp_pc, sp_q, sp_result>>

delayVars == <<d_cfg, d_attempt, d_delay, d_prev>>

classifyVars == <<c_pc, c_name, c_description, c_category>>

seqVars == <<q_calls, q_errors, q_ops, q_since, q_last>>

pureVars == <<delayVars, classifyVars, seqVars>>

dataVars == <<normVars, storeVars, raceVars, spendVars, pureVars>>

vars == <<retryVars, breakerVars, counterVars, fetchVars, fecVars, dataVars>>

\* ------------------------------------------------------------------------
\* Bounds of the model
\* ------------------------------------------------------------------------
MaxRetries == 3
MaxThreshold == 2
MaxRecovery == 2
MaxTime == 4
MaxCallsPerThread == 2
MaxUpstreamPages == 2
MaxLongWaits == 1
MaxWords == 3
MaxOps == 3
MaxInitialRows == 1
MaxRows == 2
MaxLimit == 2
MaxAttempt == 10
MaxNameWords == 2
MaxTrackedOps == 4

\* ------------------------------------------------------------------------
\* Exceptions (error_handler.py 15-27 and the requests exceptions it tests)
\* ------------------------------------------------------------------------
\* status_code None (and the equally falsy 0) of an APIError
NoStatus == 0

\* retry_after None of a RateLimitError
NoRetryAfter == -1

NoError == [cls |-> "none", status |-> NoStatus, retry_after |-> NoRetryAfter]

Err(cls, status, retry_after) ==
    [cls |-> cls, status |-> status, retry_after |-> retry_after]

\* HTTP statuses the upstream may answer with
OkStatuses == {200, 204}
ErrorStatuses == {400, 401, 404, 408, 429, 500, 503}

\* ExponentialBackoff._is_retryable_error
IsRetryableError(error) ==
    IF error.cls \in {"ConnectionError", "Timeout"} THEN TRUE
    ELSE IF error.cls = "HTTPError"
            /\ (  (500 <= error.status /\ error.status < 600)
               \/ error.status = 429
               \/ error.status = 408) THEN TRUE
    ELSE IF error.cls = "RateLimitError" THEN TRUE
    ELSE IF error.cls \in {"APIError", "RateLimitError"}
            /\ (  (error.status # NoStatus /\ 500 <= error.status /\ error.status < 600)
               \/ error.status = 429) THEN TRUE
    ELSE FALSE

\* ------------------------------------------------------------------------
\* Outcomes of one invocation of a wrapped function
\* ------------------------------------------------------------------------
Ok(v) == [ok |-> TRUE, value |-> v, err |-> NoError]
Fail(e) == [ok |-> FALSE, value |-> "none", err |-> e]

\* What an arbitrary wrapped operation may do on one invocation
OpErrors ==
    {Err("ConnectionError", NoStatus, NoRetryAfter),
     Err("Timeout", NoStatus, NoRetryAfter),
     Err("ValueError", NoStatus, NoRetryAfter),
     Err("RateLimitError", NoStatus, NoRetryAfter),
     Err("RateLimitError", NoStatus, 2)}
    \cup {Err("HTTPError", s, NoRetryAfter) : s \in {404, 408, 500}}
    \cup {Err("APIError", s, NoRetryAfter) : s \in {NoStatus, 400, 429, 503}}

OpOutcomes == {Ok("r1"), Ok("r2")} \cup {Fail(e) : e \in OpErrors}

\* The Retry-After header of a response: absent, not an integer, or an integer
HdrAbsent == [present |-> FALSE, integer |-> FALSE, value |-> 0]
HdrText == [present |-> TRUE, integer |-> FALSE, value |-> 0]
HdrInt(n) == [present |-> TRUE, integer |-> TRUE, value |-> n]
RetryAfterHeaders == {HdrAbsent, HdrText, HdrInt(0), HdrInt(2)}

\* What requests.request may do on one HTTP request
Response(status, hdr) == [kind |-> "response", status |-> status, retry_after |-> hdr]
NetFailure(kind) == [kind |-> kind, status |-> NoStatus, retry_after |-> HdrAbsent]
NetOutcomes ==
    {Response(s, HdrAbsent) : s \in (OkStatuses \cup ErrorStatuses) \ {429}}
    \cup {Response(429, h) : h \in RetryAfterHeaders}
    \cup {NetFailure("timeout"), NetFailure("connection_error"),
          NetFailure("other_request_exception")}

\* robust_api_request: retry_after parsed from the Retry-After header of a 429
ParseRetryAfter(hdr) ==
    IF hdr.present /\ hdr.integer THEN hdr.value ELSE NoRetryAfter

\* response.raise_for_status(): raises HTTPError for 4xx and 5xx
RaisesForStatus(status) == 400 <= status /\ status < 600

\* robust_api_request._make_request: one HTTP request and the mapping of its
\* failure to APIError / RateLimitError
MakeRequest(net) ==
    IF net.kind = "timeout" THEN Fail(Err("APIError", NoStatus, NoRetryAfter))
    ELSE IF net.kind = "connection_error" THEN Fail(Err("APIError", NoStatus, NoRetryAfter))
    ELSE IF net.kind = "other_request_exception"
        THEN Fail(Err("RequestException", NoStatus, NoRetryAfter))
    ELSE IF net.status = 429
        THEN Fail(Err("RateLimitError", NoStatus, ParseRetryAfter(net.retry_after)))
    ELSE IF RaisesForStatus(net.status)
        THEN Fail(Err("APIError", net.status, NoRetryAfter))
    ELSE Ok("response")

\* ------------------------------------------------------------------------
\* ExponentialBackoff.calculate_delay
\* ------------------------------------------------------------------------
\* Delays are in milliseconds, so that the 10% jitter of a delay is a whole number
Seconds(n) == 1000 * n

\* base_delay, max_delay, exponential_base and jitter of an ExponentialBackoff
BackoffConfig(base, cap, factor, jitter) ==
    [base_delay |-> base, max_delay |-> cap, exponential_base |-> factor,
     jitter |-> jitter]

\* ExponentialBackoff(max_retries=n): base_delay 1.0, max_delay 60.0,
\* exponential_base 2.0, jitter True
DefaultBackoff == BackoffConfig(Seconds(1), Seconds(60), 2, TRUE)

\* x ** n
RECURSIVE Power(_, _)
Power(x, n) == IF n = 0 THEN 1 ELSE x * Power(x, n - 1)

\* min(a, b) and max(a, b)
MinOf(a, b) == IF b < a THEN b ELSE a
MaxOf(a, b) == IF b > a THEN b ELSE a

\* random.uniform(-jitter_range, jitter_range): the lowest draw, the middle, the
\* highest
JitterDraws == {-1, 0, 1}

\* The delay with the cap at max_delay left out
Uncapped(delay, cap) == delay

\* delay = min(delay, self.max_delay)
CapDelay(delay, cap) == MinOf(delay, cap)

\* calculate_delay(attempt) of an instance configured as cfg, when
\* random.uniform draws u
calculate_delay(cfg, att, u) ==
    IF att <= 0 THEN 0
    ELSE LET delay == CapDelay(cfg.base_delay * Power(cfg.exponential_base, att - 1),
                               cfg.max_delay)
             jitter_range == delay \div 10
         IN  MaxOf(0, IF cfg.jitter THEN delay + u * jitter_range ELSE delay)

\* ------------------------------------------------------------------------
\* ExponentialBackoff.__call__.wrapper
\* ------------------------------------------------------------------------
\* range(self.max_retries + 1)
AttemptRange(n) == 0 .. n

\* A retry loop that skips the classification of the error
ShouldRetryAnyError(att, n, e) == att # n

\* After a failed attempt: the loop goes on to sleep and retry unless this was
\* the last attempt or the error is not retryable
ShouldRetry(att, n, e) == att # n /\ IsRetryableError(e)

\* No delay computed yet
NoWait == [computed |-> 0, slept |-> 0]

\* The delay slept when the suggestion of the API is not looked at
WaitIgnoringRetryAfter(delay, e) == delay

\* if isinstance(e, RateLimitError) and e.retry_after:
\*     delay = max(delay, e.retry_after)
WaitBeforeRetry(delay, e) ==
    IF e.cls = "RateLimitError" /\ e.retry_after # NoRetryAfter /\ e.retry_after # 0
      THEN MaxOf(delay, Seconds(e.retry_after))
      ELSE delay

\* One iteration of the retry loop up to its return, break or sleep
BackoffAttempt(outcome) ==
    /\ r_hist' = Append(r_hist, outcome)
    /\ IF outcome.ok
         THEN /\ r_pc' = "returned"
              /\ r_result' = outcome.value
              /\ UNCHANGED <<last_exception, r_raised, r_wait>>
         ELSE /\ last_exception' = outcome.err
              /\ r_result' = r_result
              /\ IF ShouldRetry(attempt, max_retries, outcome.err)
                   THEN /\ r_pc' = "sleep"
                        /\ r_raised' = r_raised
                        /\ \E u \in JitterDraws :
                              LET delay == calculate_delay(backoff, attempt + 1, u)
                              IN  r_wait' = [computed |-> delay,
                                             slept |-> WaitBeforeRetry(delay, outcome.err)]
                   ELSE /\ r_pc' = "raised"
                        /\ r_raised' = outcome.err
                        /\ r_wait' = r_wait
    /\ UNCHANGED <<max_retries, wrapped, attempt, sleeps, backoff>>
    /\ UNCHANGED <<breakerVars, counterVars, fetchVars, fecVars, dataVars>>

\* The wrapper invokes an arbitrary wrapped operation
CallOp ==
    /\ r_pc = "try" /\ wrapped = "op"
    /\ \E outcome \in OpOutcomes : BackoffAttempt(outcome)
    /\ UNCHANGED r_net

\* The wrapper invokes robust_api_request._make_request, which issues one request
CallMakeRequest ==
    /\ r_pc = "try" /\ wrapped = "make_request"
    /\ \E net \in NetOutcomes :
          /\ r_net' = Append(r_net, net)
          /\ BackoffAttempt(MakeRequest(net))

\* time.sleep(delay), then the next iteration of the loop (or its end)
BackoffSleep ==
    /\ r_pc = "sleep"
    /\ sleeps' = sleeps + 1
    /\ IF attempt + 1 \in AttemptRange(max_retries)
         THEN r_pc' = "try" /\ attempt' = attempt + 1 /\ r_raised' = r_raised
         ELSE r_pc' = "raised" /\ attempt' = attempt /\ r_raised' = last_exception
    /\ UNCHANGED <<max_retries, wrapped, last_exception, r_result, r_hist, r_net>>
    /\ UNCHANGED <<backoff, r_wait>>
    /\ UNCHANGED <<breakerVars, counterVars, fetchVars, fecVars, dataVars>>

\* The instances that wrap an arbitrary operation: the default one, and
\* ExponentialBackoff(base_delay=1.0, max_delay=5.0, jitter=False)
OpBackoffs == {DefaultBackoff, BackoffConfig(Seconds(1), Seconds(5), 2, FALSE)}

RetryInit ==
    /\ max_retries \in 0 .. MaxRetries
    /\ wrapped \in {"op", "make_request"}
    /\ backoff \in IF wrapped = "op" THEN OpBackoffs ELSE {DefaultBackoff}
    /\ r_wait = NoWait
    /\ r_pc = "try"
    /\ attempt = 0
    /\ last_exception = NoError
    /\ r_result = "none"
    /\ r_raised = NoError
    /\ r_hist = <<>>
    /\ r_net = <<>>
    /\ sleeps = 0

\* The retry component at rest, for the specifications of the other components
RetryIdle ==
    /\ max_retries = 0
    /\ wrapped = "op"
    /\ r_pc = "idle"
    /\ backoff = DefaultBackoff
    /\ r_wait = NoWait
    /\ attempt = 0
    /\ last_exception = NoError
    /\ r_result = "none"
    /\ r_raised = NoError
    /\ r_hist = <<>>
    /\ r_net = <<>>
    /\ sleeps = 0

RetryNext == CallOp \/ CallMakeRequest \/ BackoffSleep

\* ------------------------------------------------------------------------
\* circuit_breaker(failure_threshold, recovery_timeout)
\* ------------------------------------------------------------------------
\* The functions wrapped by an application of the decorator
Breakers == {"f1", "f2"}

\* state = {"failures": 0, "last_failure_time": 0, "is_open": False}
InitialBreakerState == [failures |-> 0, last_failure_time |-> 0, is_open |-> FALSE]

\* The recovery timeout has passed since the last recorded failure
RecoveryElapsed(st, current_time, timeout) ==
    current_time - st.last_failure_time > timeout

\* A reset that clears the open flag and keeps the failure count
BreakerCheckResetKeepsCount(st, current_time, timeout) ==
    IF st.is_open /\ RecoveryElapsed(st, current_time, timeout)
      THEN [st EXCEPT !.is_open = FALSE]
      ELSE st

\* A reset that does not wait for the recovery timeout
BreakerCheckResetAnyTime(st, current_time, timeout) ==
    IF st.is_open
      THEN [st EXCEPT !.is_open = FALSE, !.failures = 0]
      ELSE st

\* wrapper, first part: reset an open circuit after the recovery timeout
BreakerCheckReset(st, current_time, timeout) ==
    IF st.is_open /\ RecoveryElapsed(st, current_time, timeout)
      THEN [st EXCEPT !.is_open = FALSE, !.failures = 0]
      ELSE st

\* wrapper, on success of the wrapped function
BreakerOnSuccess(st) == [st EXCEPT !.failures = 0]

\* A breaker that opens one failure late
BreakerOnFailureLate(st, current_time, threshold) ==
    [failures |-> st.failures + 1,
     last_failure_time |-> current_time,
     is_open |-> IF st.failures + 1 > threshold THEN TRUE ELSE st.is_open]

\* wrapper, on an exception of the wrapped function
BreakerOnFailure(st, current_time, threshold) ==
    [failures |-> st.failures + 1,
     last_failure_time |-> current_time,
     is_open |-> IF st.failures + 1 >= threshold THEN TRUE ELSE st.is_open]

\* One state dict shared by every wrapped function
StoreStateShared(f, st) == [g \in Breakers |-> st]

\* The closure of decorator(func): each wrapped function has its own state dict
StoreState(f, st) == [state EXCEPT ![f] = st]

\* A rejection that moves the last failure time to the time of the rejected call
BreakerOnRejectCounted(st, current_time) ==
    [st EXCEPT !.last_failure_time = current_time]

\* wrapper, fail fast: the APIError is raised with the state dict left alone
BreakerOnReject(st, current_time) == st

NoFailureYet == [failed_at |-> 0, rejected |-> FALSE]

NoCall == [f |-> "none", seq |-> 0, reset |-> FALSE, rejected |-> FALSE,
           invoked |-> FALSE, ok |-> FALSE]

\* One call through the wrapper of f; the wrapped function, if it is reached,
\* succeeds or raises (ok) and takes dur units of time
BreakerCall(f, ok, dur) ==
    LET current_time == now
        st == state[f]
        checked == BreakerCheckReset(st, current_time, recovery_timeout[f])
        reset == st.is_open /\ ~checked.is_open
    IN  /\ now + dur <= MaxTime
        /\ IF checked.is_open
             THEN \* fail fast: APIError "Circuit breaker is OPEN"
                  /\ dur = 0 /\ ok = FALSE
                  /\ state' = StoreState(f, BreakerOnReject(checked, current_time))
                  /\ b_since' = [b_since EXCEPT ![f].rejected = TRUE]
                  /\ b_last' = [f |-> f, seq |-> 1 - b_last.seq, reset |-> reset,
                                rejected |-> TRUE, invoked |-> FALSE, ok |-> FALSE]
                  /\ UNCHANGED <<now, consec>>
             ELSE /\ state' = StoreState(f,
                         IF ok THEN BreakerOnSuccess(checked)
                         ELSE BreakerOnFailure(checked, current_time, failure_threshold[f]))
                  /\ b_last' = [f |-> f, seq |-> 1 - b_last.seq, reset |-> reset,
                                rejected |-> FALSE, invoked |-> TRUE, ok |-> ok]
                  /\ consec' = [consec EXCEPT ![f] =
                         IF ok THEN 0 ELSE (IF reset THEN 0 ELSE consec[f]) + 1]
                  /\ now' = now + dur
                  /\ b_since' = IF ok THEN b_since
                                ELSE [b_since EXCEPT
                                        ![f] = [failed_at |-> now + dur, rejected |-> FALSE]]
        /\ UNCHANGED <<failure_threshold, recovery_timeout>>
        /\ UNCHANGED <<retryVars, counterVars, fetchVars, fecVars, dataVars>>

\* A call through one of the wrapped functions
Call == \E f \in Breakers, ok \in BOOLEAN, dur \in 0 .. 1 : BreakerCall(f, ok, dur)

\* Time passes between calls
Tick ==
    /\ now < MaxTime
    /\ now' = now + 1
    /\ UNCHANGED <<failure_threshold, recovery_timeout, state, b_last, consec, b_since>>
    /\ UNCHANGED <<retryVars, counterVars, fetchVars, fecVars, dataVars>>

BreakerInit ==
    /\ failure_threshold \in [Breakers -> 1 .. MaxThreshold]
    /\ recovery_timeout \in [Breakers -> 1 .. MaxRecovery]
    /\ state = [f \in Breakers |-> InitialBreakerState]
    /\ now = 1
    /\ b_last = NoCall
    /\ consec = [f \in Breakers |-> 0]
    /\ b_since = [f \in Breakers |-> NoFailureYet]

\* The breakers at rest, for the specifications of the other components
BreakerIdle ==
    /\ failure_threshold = [f \in Breakers |-> 1]
    /\ recovery_timeout = [f \in Breakers |-> 1]
    /\ state = [f \in Breakers |-> InitialBreakerState]
    /\ now = 1
    /\ b_last = NoCall
    /\ consec = [f \in Breakers |-> 0]
    /\ b_since = [f \in Breakers |-> NoFailureYet]

BreakerNext == Call \/ Tick

\* ------------------------------------------------------------------------
\* APICallCounter.record_call run by threads (no lock is taken anywhere)
\* ------------------------------------------------------------------------
Threads == {"t1", "t2"}
ApiNames == {"fec", "irs"}

\* {"total": 0, "success": 0, "failed": 0}
NewStats == [total |-> 0, success |-> 0, failed |-> 0]

\* The counters of an api name as get_stats reads them (zero if never recorded)
StatsOf(api) == IF calls[api] = 0 THEN NewStats ELSE dicts[calls[api]]

\* A thread enters record_call(api_name, success)
RecordCallEnter(t) ==
    /\ t_pc[t] = "idle" /\ t_left[t] > 0
    /\ \E api \in ApiNames, success \in BOOLEAN :
          /\ t_api' = [t_api EXCEPT ![t] = api]
          /\ t_success' = [t_success EXCEPT ![t] = success]
          /\ invoked' = [invoked EXCEPT ![api] = @ + 1]
    /\ t_left' = [t_left EXCEPT ![t] = @ - 1]
    /\ t_pc' = [t_pc EXCEPT ![t] = "check"]
    /\ UNCHANGED <<calls, dicts, t_ref, t_tmp>>
    /\ UNCHANGED <<retryVars, breakerVars, fetchVars, fecVars, dataVars>>

\* if api_name not in self.calls:
RecordCallCheck(t) ==
    /\ t_pc[t] = "check"
    /\ t_pc' = [t_pc EXCEPT ![t] = IF calls[t_api[t]] = 0 THEN "create" ELSE "load_total"]
    /\ UNCHANGED <<calls, dicts, t_api, t_success, t_ref, t_tmp, t_left, invoked>>
    /\ UNCHANGED <<retryVars, breakerVars, fetchVars, fecVars, dataVars>>

\* self.calls[api_name] = {"total": 0, "success": 0, "failed": 0}
RecordCallCreate(t) ==
    /\ t_pc[t] = "create"
    /\ dicts' = Append(dicts, NewStats)
    /\ calls' = [calls EXCEPT ![t_api[t]] = Len(dicts) + 1]
    /\ t_pc' = [t_pc EXCEPT ![t] = "load_total"]
    /\ UNCHANGED <<t_api, t_success, t_ref, t_tmp, t_left, invoked>>
    /\ UNCHANGED <<retryVars, breakerVars, fetchVars, fecVars, dataVars>>

\* The field the second += of record_call updates
FlagField(success) == IF success THEN "success" ELSE "failed"

\* The field a thread at this position is updating
FieldAt(t) == IF t_pc[t] \in {"load_total", "store_total"}
                THEN "total" ELSE FlagField(t_success[t])

\* self.calls[api_name][field] += 1, first half: load the dict and the value
RecordCallLoad(t) ==
    /\ t_pc[t] \in {"load_total", "load_flag"}
    /\ t_ref' = [t_ref EXCEPT ![t] = calls[t_api[t]]]
    /\ t_tmp' = [t_tmp EXCEPT ![t] = dicts[calls[t_api[t]]][FieldAt(t)]]
    /\ t_pc' = [t_pc EXCEPT ![t] =
                   IF t_pc[t] = "load_total" THEN "store_total" ELSE "store_flag"]
    /\ UNCHANGED <<calls, dicts, t_api, t_success, t_left, invoked>>
    /\ UNCHANGED <<retryVars, breakerVars, fetchVars, fecVars, dataVars>>

\* self.calls[api_name][field] += 1, second half: store value + 1 in that dict
RecordCallStore(t) ==
    /\ t_pc[t] \in {"store_total", "store_flag"}
    /\ dicts' = [dicts EXCEPT ![t_ref[t]][FieldAt(t)] = t_tmp[t] + 1]
    /\ t_pc' = [t_pc EXCEPT ![t] =
                   IF t_pc[t] = "store_total" THEN "load_flag" ELSE "idle"]
    /\ UNCHANGED <<calls, t_api, t_success, t_ref, t_tmp, t_left, invoked>>
    /\ UNCHANGED <<retryVars, breakerVars, fetchVars, fecVars, dataVars>>

CounterInit ==
    /\ calls = [api \in ApiNames |-> 0]
    /\ dicts = <<>>
    /\ t_pc = [t \in Threads |-> "idle"]
    /\ t_api = [t \in Threads |-> "fec"]
    /\ t_success = [t \in Threads |-> TRUE]
    /\ t_ref = [t \in Threads |-> 0]
    /\ t_tmp = [t \in Threads |-> 0]
    /\ t_left = [t \in Threads |-> MaxCallsPerThread]
    /\ invoked = [api \in ApiNames |-> 0]

\* The counter at rest, for the specifications of the other components
CounterIdle ==
    /\ calls = [api \in ApiNames |-> 0]
    /\ dicts = <<>>
    /\ t_pc = [t \in Threads |-> "idle"]
    /\ t_api = [t \in Threads |-> "fec"]
    /\ t_success = [t \in Threads |-> TRUE]
    /\ t_ref = [t \in Threads |-> 0]
    /\ t_tmp = [t \in Threads |-> 0]
    /\ t_left = [t \in Threads |-> 0]
    /\ invoked = [api \in ApiNames |-> 0]

CounterNext ==
    \E t \in Threads :
        \/ RecordCallEnter(t)
        \/ RecordCallCheck(t)
        \/ RecordCallCreate(t)
        \/ RecordCallLoad(t)
        \/ RecordCallStore(t)

\* ------------------------------------------------------------------------
\* fetch_data of the source adapters
\* ------------------------------------------------------------------------
Adapters == {"fec", "lobbying", "irs", "sec"}

\* _get_corporate_pac_ids / [1, 2, 3, 4] / _get_corporate_foundation_eins /
\* _get_company_ciks: the entities fetched when no selector is given
DefaultEntities(a) == IF a = "lobbying" THEN <<1, 2, 3, 4>> ELSE <<1, 2, 3>>

\* The adapters that check the credential before fetching
ChecksCredential(a) == a \in {"fec", "irs"}

\* 'your_fec_api_key_here' / 'your_propublica_api_key_here'
PlaceholderKey(a) ==
    IF a = "irs" THEN "your_propublica_api_key_here" ELSE "your_fec_api_key_here"

\* The values of the adapter's environment variable: unset or empty, the
\* placeholder, a key
ApiKeys(a) == {"", PlaceholderKey(a), "secret"}

\* The years fetch_data is called with
FetchYears == {2023, 2024}

\* not self.api_key, alone
KeyMissingIfEmpty(a, key) == key = ""

\* not self.api_key or self.api_key == '<placeholder>'
KeyMissing(a, key) == key = "" \/ key = PlaceholderKey(a)

\* self.api_key is configured (not empty, not the placeholder)
api_key_set == ~KeyMissing(adapter, api_key)

\* The records of N as a sequence of tagged records
\* The N records of a synthetic dataset, each dated in year y
MockRecords(n, y) == [i \in 1 .. n |-> <<"mock", i, y>>]

\* _get_mock_data: the synthetic dataset of an adapter (the SEC adapter has none)
MockData(a, ents, y) ==
    IF a = "fec" THEN MockRecords(3, y)
    ELSE IF a = "lobbying" THEN MockRecords(3 * Len(ents), y)
    ELSE IF a = "irs" THEN MockRecords(4, y)
    ELSE <<>>

\* The adapters whose fetch_data falls back to _get_mock_data when nothing was fetched
HasFallback(a) == a \in {"fec", "lobbying", "irs"}

\* The end of fetch_data: the fetched records, or the mock data if there are none
FetchReturn(a, ents, fetched, y) ==
    IF fetched = <<>> /\ HasFallback(a)
      THEN [kind |-> "mock", records |-> MockData(a, ents, y)]
      ELSE [kind |-> "live", records |-> fetched]

NoResult == [kind |-> "none", records |-> <<>>]

\* fetch_data up to its loop: the credential check of the FEC and IRS adapters
FetchStart ==
    /\ f_pc = "start"
    /\ IF ChecksCredential(adapter) /\ ~api_key_set
         THEN /\ f_pc' = "done"
              /\ f_result' = [kind |-> "mock", records |-> MockData(adapter, entities, year)]
         ELSE /\ f_pc' = IF adapter = "fec" THEN "enter" ELSE "entity"
              /\ f_result' = f_result
    /\ UNCHANGED <<adapter, api_key, year, entities, upstream, f_idx, f_total, f_requested>>
    /\ UNCHANGED <<retryVars, breakerVars, counterVars, fecVars, dataVars>>

\* What one entity's fetch of the lobbying, IRS or SEC adapter may meet:
\* a requests.RequestException (connection, timeout, HTTP error status), another
\* exception (a body that is not the expected JSON), or a body with n records
EntityOutcomes == {"request_exception", "other_exception", "no_records", "records"}

\* _fetch_quarter_data / _fetch_foundation_grants / _fetch_company_financials:
\* the records one entity adds to the list of fetch_data. A RequestException is
\* caught inside and gives [] (None for SEC); any other exception leaves the
\* method and is caught by the loop of fetch_data.
EntityRecords(a, entity, outcome) ==
    IF outcome = "records" THEN <<<<entity, 1>>>> ELSE <<>>

\* One iteration of the loop of fetch_data of the lobbying, IRS or SEC adapter,
\* and the end of fetch_data after the last one
FetchEntity ==
    /\ f_pc = "entity"
    /\ \E outcome \in EntityOutcomes :
          LET fetched == f_total \o EntityRecords(adapter, entities[f_idx], outcome)
          IN  /\ f_total' = fetched
              /\ IF f_idx < Len(entities)
                   THEN /\ f_idx' = f_idx + 1
                        /\ UNCHANGED <<f_pc, f_result>>
                   ELSE /\ f_pc' = "done"
                        /\ f_result' = FetchReturn(adapter, entities, fetched, year)
                        /\ f_idx' = f_idx
    /\ f_requested' = f_requested \cup {entities[f_idx]}
    /\ UNCHANGED <<adapter, api_key, year, entities, upstream>>
    /\ UNCHANGED <<retryVars, breakerVars, counterVars, fecVars, dataVars>>

\* ------------------------------------------------------------------------
\* FECIngestion.fetch_data and _fetch_committee_contributions under
\* @retry_on_failure @log_api_metrics @track_api_calls @circuit_breaker
\* ------------------------------------------------------------------------
\* retry_on_failure = ExponentialBackoff(max_retries=3, base_delay=1.0)
FecMaxRetries == 3
\* robust_api_request(..., max_retries=3)
RequestMaxRetries == 3
\* @circuit_breaker(failure_threshold=3, recovery_timeout=300)
FecFailureThreshold == 3
FecRecoveryTimeout == 300
\* max_pages = 50
max_pages == 50

\* How long a request or a sleep takes, in seconds: next to nothing compared
\* with the recovery timeout, or longer than it
TimeSteps == {0, FecRecoveryTimeout + 1}
MaxClock == 1 + MaxLongWaits * (FecRecoveryTimeout + 1)

\* How the upstream behaves for a committee: it answers every request with a
\* page of results ("healthy", MaxUpstreamPages pages; "runaway", never a last
\* page), or it may answer anything ("flaky")
UpstreamProfiles == {"healthy", "flaky", "runaway"}

\* The body of a 2xx response: results with pagination saying more pages or
\* the last page, no results, or a body response.json() cannot read
Bodies == {"results_more", "results_last", "empty", "bad_json"}

FecReply(net, body) == [net |-> net, body |-> body]

\* What the upstream may answer to the request for page p of a committee
FecReplies(profile, p) ==
    IF profile = "runaway" THEN {FecReply(Response(200, HdrAbsent), "results_more")}
    ELSE IF profile = "healthy"
      THEN {FecReply(Response(200, HdrAbsent),
                     IF p < MaxUpstreamPages THEN "results_more" ELSE "results_last")}
    ELSE {FecReply(Response(200, HdrAbsent), b) :
             b \in IF p < MaxUpstreamPages THEN Bodies ELSE Bodies \ {"results_more"}}
         \cup {FecReply(n, "empty") :
                 n \in {Response(404, HdrAbsent), Response(500, HdrAbsent),
                        Response(429, HdrAbsent), NetFailure("timeout"),
                        NetFailure("other_request_exception")}}

\* api_counter.record_call(api_name, success) on the entry of one api name
TrackCall(tr, success) ==
    [total |-> tr.total + 1,
     success |-> IF success THEN tr.success + 1 ELSE tr.success,
     failed |-> IF success THEN tr.failed ELSE tr.failed + 1]

\* An error of the open circuit breaker that carries a 503 status
CircuitOpenErrorWithStatus == Err("APIError", 503, NoRetryAfter)

\* The APIError raised by an open circuit breaker
CircuitOpenError == Err("APIError", NoStatus, NoRetryAfter)

\* The state of fetch_data and of the call in progress, as one record
FecLocal ==
    [pc |-> f_pc, idx |-> f_idx, total |-> f_total, result |-> f_result,
     o_attempt |-> o_attempt, page |-> page, i_attempt |-> i_attempt,
     contributions |-> contributions, fec_state |-> fec_state, tracked |-> tracked]

\* fetch_data: the loop goes to the next committee, or ends and returns
NextCommittee(s) ==
    IF s.idx < Len(entities)
      THEN [s EXCEPT !.idx = s.idx + 1, !.pc = "enter", !.o_attempt = 0]
      ELSE [s EXCEPT !.pc = "done", !.result = FetchReturn("fec", entities, s.total, year)]

\* _fetch_committee_contributions returns recs: the breaker resets its count,
\* the call is recorded as a success, fetch_data extends its list
CallReturns(s, recs) ==
    NextCommittee([s EXCEPT !.fec_state = BreakerOnSuccess(s.fec_state),
                            !.tracked = TrackCall(s.tracked, TRUE),
                            !.total = s.total \o recs])

\* An exception e leaves the circuit_breaker wrapper: track_api_calls records a
\* failed call, retry_on_failure sleeps and retries if e is retryable and
\* attempts are left, otherwise fetch_data catches e and continues
CallFails(s, e) ==
    LET t == [s EXCEPT !.tracked = TrackCall(s.tracked, FALSE)]
    IN  IF ShouldRetry(s.o_attempt, FecMaxRetries, e)
          THEN [t EXCEPT !.pc = "outer_sleep"]
          ELSE NextCommittee(t)

\* The body of _fetch_committee_contributions raises e: the breaker counts it
BodyRaises(s, e) ==
    CallFails([s EXCEPT !.fec_state =
                   BreakerOnFailure(s.fec_state, fec_time, FecFailureThreshold)], e)

\* The record made of the results of page p of committee c
PageRecords(c, p) == <<<<c, p>>>>

\* while params['page'] <= max_pages, with the test left out
WithinPageLimitAlways(p) == TRUE

\* while params['page'] <= max_pages
WithinPageLimit(p) == p <= max_pages

\* The pagination loop after a reply to the request for the current page
AfterReply(s, reply) ==
    LET outcome == MakeRequest(reply.net)
        c == entities[s.idx]
    IN  IF outcome.ok
          THEN IF reply.body \in {"bad_json", "empty"}
                 THEN CallReturns(s, s.contributions)
               ELSE IF reply.body = "results_last" \/ ~WithinPageLimit(s.page + 1)
                 THEN CallReturns(s, s.contributions \o PageRecords(c, s.page))
               ELSE [s EXCEPT !.contributions = s.contributions \o PageRecords(c, s.page),
                              !.page = s.page + 1,
                              !.i_attempt = 0]
        ELSE IF ShouldRetry(s.i_attempt, RequestMaxRetries, outcome.err)
          THEN [s EXCEPT !.pc = "inner_sleep"]
        ELSE IF outcome.err.cls \in {"APIError", "RateLimitError"}
          THEN BodyRaises(s, outcome.err)
        ELSE CallReturns(s, s.contributions)

\* The call enters the wrappers: the breaker resets after the recovery timeout,
\* then rejects the call if it is open or lets the body start at page 1
AfterEnter(s, t) ==
    LET checked == BreakerCheckReset(s.fec_state, t, FecRecoveryTimeout)
        s1 == [s EXCEPT !.fec_state = checked]
    IN  IF checked.is_open
          THEN CallFails(s1, CircuitOpenError)
          ELSE [s1 EXCEPT !.pc = "request", !.page = 1, !.i_attempt = 0,
                          !.contributions = <<>>]

SetFecLocal(s) ==
    /\ f_pc' = s.pc
    /\ f_idx' = s.idx
    /\ f_total' = s.total
    /\ f_result' = s.result
    /\ o_attempt' = s.o_attempt
    /\ page' = s.page
    /\ i_attempt' = s.i_attempt
    /\ contributions' = s.contributions
    /\ fec_state' = s.fec_state
    /\ tracked' = s.tracked

FecFrame ==
    /\ UNCHANGED <<adapter, api_key, year, entities, upstream>>
    /\ UNCHANGED <<failure_threshold, recovery_timeout, state, b_last, consec, b_since>>
    /\ UNCHANGED <<retryVars, counterVars, dataVars>>

\* One call of self._fetch_committee_contributions(committee_id, year) enters
\* the decorators
FecEnter ==
    /\ f_pc = "enter"
    /\ fec_time' = now
    /\ SetFecLocal(AfterEnter(FecLocal, now))
    /\ UNCHANGED <<now, f_requested>>
    /\ FecFrame

\* One HTTP request of robust_api_request for the current page, and what the
\* code does with the reply up to the next request or sleep
FecRequest ==
    /\ f_pc = "request"
    /\ \E reply \in FecReplies(upstream[entities[f_idx]], page), d \in TimeSteps :
          /\ now + d <= MaxClock
          /\ now' = now + d
          /\ SetFecLocal(AfterReply(FecLocal, reply))
    /\ f_requested' = f_requested \cup {entities[f_idx]}
    /\ UNCHANGED fec_time
    /\ FecFrame

\* time.sleep(delay) of the backoff inside robust_api_request
FecInnerSleep ==
    /\ f_pc = "inner_sleep"
    /\ \E d \in TimeSteps : now + d <= MaxClock /\ now' = now + d
    /\ SetFecLocal([FecLocal EXCEPT !.pc = "request", !.i_attempt = i_attempt + 1])
    /\ UNCHANGED <<fec_time, f_requested>>
    /\ FecFrame

\* time.sleep(delay) of retry_on_failure
FecOuterSleep ==
    /\ f_pc = "outer_sleep"
    /\ \E d \in TimeSteps : now + d <= MaxClock /\ now' = now + d
    /\ SetFecLocal([FecLocal EXCEPT !.pc = "enter", !.o_attempt = o_attempt + 1])
    /\ UNCHANGED <<fec_time, f_requested>>
    /\ FecFrame

FetchInit ==
    /\ adapter \in Adapters
    /\ api_key \in ApiKeys(adapter)
    /\ ~ChecksCredential(adapter) => api_key = ""
    /\ year \in FetchYears
    /\ entities \in {DefaultEntities(adapter), <<1>>}
    /\ upstream \in [1 .. 4 -> UpstreamProfiles]
    /\ (adapter # "fec" \/ ~api_key_set) => \A e \in 1 .. 4 : upstream[e] = "flaky"
    /\ \A e \in 1 .. 4 : e > Len(entities) => upstream[e] = "flaky"
    /\ f_pc = "start"
    /\ f_idx = 1
    /\ f_total = <<>>
    /\ f_result = NoResult
    /\ f_requested = {}
    /\ o_attempt = 0
    /\ page = 1
    /\ i_attempt = 0
    /\ contributions = <<>>
    /\ fec_state = InitialBreakerState
    /\ fec_time = 0
    /\ tracked = NewStats

\* The adapters at rest, for the specifications of the other components
FetchIdle ==
    /\ adapter = "fec"
    /\ api_key = ""
    /\ year = 2023
    /\ entities = <<1>>
    /\ upstream = [e \in 1 .. 4 |-> "flaky"]
    /\ f_pc = "idle"
    /\ f_idx = 1
    /\ f_total = <<>>
    /\ f_result = NoResult
    /\ f_requested = {}
    /\ o_attempt = 0
    /\ page = 1
    /\ i_attempt = 0
    /\ contributions = <<>>
    /\ fec_state = InitialBreakerState
    /\ fec_time = 0
    /\ tracked = NewStats

FetchNext ==
    \/ FetchStart
    \/ FetchEntity
    \/ FecEnter
    \/ FecRequest
    \/ FecInnerSleep
    \/ FecOuterSleep

\* ------------------------------------------------------------------------
\* DataProcessor._normalize_company_name
\* ------------------------------------------------------------------------
\* Strings are sequences of one-character strings.
UpperCase == {"A", "C", "E", "G", "I", "L", "M", "N", "O", "P", "R", "T"}

\* str.lower() on one character
LowerChar(c) ==
    CASE c = "A" -> "a" [] c = "C" -> "c" [] c = "E" -> "e" [] c = "I" -> "i"
      [] c = "G" -> "g" [] c = "L" -> "l" [] c = "M" -> "m" [] c = "N" -> "n"
      [] c = "O" -> "o" [] c = "P" -> "p" [] c = "R" -> "r" [] c = "T" -> "t"
      [] OTHER -> c

Lower(str) == [i \in 1 .. Len(str) |-> LowerChar(str[i])]

\* \s and the characters [^\w\s] of the regular expressions
IsSpace(c) == c = " "
IsPunctuation(c) == c \in {".", ",", "!", "-", "&"}

RECURSIVE LStrip(_)
LStrip(str) ==
    IF str # <<>> /\ IsSpace(Head(str)) THEN LStrip(Tail(str)) ELSE str

RECURSIVE RStrip(_)
RStrip(str) ==
    IF str # <<>> /\ IsSpace(str[Len(str)])
      THEN RStrip(SubSeq(str, 1, Len(str) - 1))
      ELSE str

\* str.strip()
Strip(str) == LStrip(RStrip(str))

\* (inc|corp|corporation|llc|ltd|limited|company|co)
CorporateSuffixes ==
    { <<"i", "n", "c">>, <<"c", "o", "r", "p">>,
      <<"c", "o", "r", "p", "o", "r", "a", "t", "i", "o", "n">>,
      <<"l", "l", "c">>, <<"l", "t", "d">>,
      <<"l", "i", "m", "i", "t", "e", "d">>,
      <<"c", "o", "m", "p", "a", "n", "y">>, <<"c", "o">> }

\* The positions of the spaces of str
SpacesOf(str) == {i \in 1 .. Len(str) : IsSpace(str[i])}

Max(S) == CHOOSE x \in S : \A y \in S : y <= x
Min(S) == CHOOSE x \in S : \A y \in S : x <= y

\* re.sub(r'\s+(inc|corp|corporation|llc|ltd|limited|company|co)\.?$', '', str):
\* the match is the last run of whitespace and all that follows it, when what
\* follows is one suffix and an optional dot; at most one match is removed
RemoveSuffix(str) ==
    IF SpacesOf(str) = {} THEN str
    ELSE LET k == Max(SpacesOf(str))
             last == SubSeq(str, k + 1, Len(str))
         IN  IF \E w \in CorporateSuffixes : last = w \/ last = w \o <<".">>
               THEN RStrip(SubSeq(str, 1, k))
               ELSE str

\* re.sub(r'[^\w\s]', '', str)
RemovePunctuation(str) == SelectSeq(str, LAMBDA c : ~IsPunctuation(c))

\* re.sub(r'\s+', ' ', str)
RECURSIVE CollapseSpaces(_)
CollapseSpaces(str) ==
    IF Len(str) < 2 THEN str
    ELSE IF IsSpace(str[1]) /\ IsSpace(str[2]) THEN CollapseSpaces(Tail(str))
    ELSE <<str[1]>> \o CollapseSpaces(Tail(str))

_normalize_company_name(name) ==
    IF name = <<>> THEN <<>>
    ELSE Strip(CollapseSpaces(RemovePunctuation(RemoveSuffix(Strip(Lower(name))))))

\* The words the names of the model are made of
W_apple == <<"a", "p", "p", "l", "e">>
W_Apple == <<"A", "p", "p", "l", "e">>
W_APPLE == <<"A", "P", "P", "L", "E">>
W_inc == <<"i", "n", "c">>
W_IncDot == <<"I", "n", "c", ".">>
W_incBang == <<"i", "n", "c", "!">>
W_CORPORATION == <<"C", "O", "R", "P", "O", "R", "A", "T", "I", "O", "N">>
W_computer == <<"c", "o", "m", "p", "u", "t", "e", "r">>

\* The empty word gives names with leading, trailing and doubled spaces
Words == {W_apple, W_Apple, W_APPLE, W_inc, W_IncDot, W_incBang, W_CORPORATION,
          W_computer, <<>>}

RECURSIVE Join(_)
Join(ws) ==
    IF ws = <<>> THEN <<>>
    ELSE IF Len(ws) = 1 THEN ws[1]
    ELSE ws[1] \o <<" ">> \o Join(Tail(ws))

\* The names of up to MaxWords words
Names == {Join(ws) : ws \in UNION {[1 .. n -> Words] : n \in 0 .. MaxWords}}

NormalizeInit ==
    /\ n_pc = "start"
    /\ n_name \in Names
    /\ n_once = <<>>
    /\ n_twice = <<>>

NormalizeIdle ==
    /\ n_pc = "idle"
    /\ n_name = <<>>
    /\ n_once = <<>>
    /\ n_twice = <<>>

\* normalized = self._normalize_company_name(name), and the same call on the result
Normalize ==
    /\ n_pc = "start"
    /\ n_pc' = "done"
    /\ n_once' = _normalize_company_name(n_name)
    /\ n_twice' = _normalize_company_name(_normalize_company_name(n_name))
    /\ UNCHANGED n_name
    /\ UNCHANGED <<retryVars, breakerVars, counterVars, fetchVars, fecVars>>
    /\ UNCHANGED <<storeVars, raceVars, spendVars, pureVars>>

\* The strings of the mappings, as sequences of characters
S_AppleInc ==
    <<"A", "p", "p", "l", "e", " ", "I", "n", "c", ".">>
S_MicrosoftCorporation ==
    <<"M", "i", "c", "r", "o", "s", "o", "f", "t", " ", "C", "o",
      "r", "p", "o", "r", "a", "t", "i", "o", "n">>
S_AlphabetInc ==
    <<"A", "l", "p", "h", "a", "b", "e", "t", " ", "I", "n", "c",
      ".">>
K_apple_inc ==
    <<"a", "p", "p", "l", "e", " ", "i", "n", "c">>
K_apple_computer ==
    <<"a", "p", "p", "l", "e", " ", "c", "o", "m", "p", "u", "t",
      "e", "r">>
K_microsoft_corporation ==
    <<"m", "i", "c", "r", "o", "s", "o", "f", "t", " ", "c", "o",
      "r", "p", "o", "r", "a", "t", "i", "o", "n">>
K_microsoft_corp ==
    <<"m", "i", "c", "r", "o", "s", "o", "f", "t", " ", "c", "o",
      "r", "p">>
K_alphabet_inc ==
    <<"a", "l", "p", "h", "a", "b", "e", "t", " ", "i", "n", "c">>
K_google_inc ==
    <<"g", "o", "o", "g", "l", "e", " ", "i", "n", "c">>
K_google_llc ==
    <<"g", "o", "o", "g", "l", "e", " ", "l", "l", "c">>

\* self.company_mapping, as loaded by _load_company_mapping
company_mapping ==
    {<<K_apple_inc, S_AppleInc>>,
     <<K_apple_computer, S_AppleInc>>,
     <<K_microsoft_corporation, S_MicrosoftCorporation>>,
     <<K_microsoft_corp, S_MicrosoftCorporation>>,
     <<K_alphabet_inc, S_AlphabetInc>>,
     <<K_google_inc, S_AlphabetInc>>,
     <<K_google_llc, S_AlphabetInc>>}

MappedKeys == {m[1] : m \in company_mapping}
Mapped(key) == (CHOOSE m \in company_mapping : m[1] = key)[2]

\* ------------------------------------------------------------------------
\* DataProcessor._find_or_create_company and process_*_data on the store
\* ------------------------------------------------------------------------
\* None and '' of a ticker or a CIK: both are false in `if ticker` / `if cik`
NoValue == <<>>

Company(name, ticker, cik) == [name |-> name, ticker |-> ticker, cik |-> cik]

\* QuerySet.first(): the row of lowest primary key among pks, 0 for None
First(pks) == IF pks = {} THEN 0 ELSE Min(pks)

\* Company.objects.filter(name__iexact=name)
ByNameIexact(cs, name) == {k \in 1 .. Len(cs) : Lower(cs[k].name) = Lower(name)}

\* Company.objects.filter(ticker__iexact=ticker)
ByTickerIexact(cs, ticker) ==
    {k \in 1 .. Len(cs) : cs[k].ticker # NoValue /\ Lower(cs[k].ticker) = Lower(ticker)}

\* Company.objects.filter(cik=cik)
ByCik(cs, cik) == {k \in 1 .. Len(cs) : cs[k].cik = cik}

\* The names, tickers and CIKs of the calls of the model
AppleNames == {S_AppleInc, Join(<<W_APPLE, W_CORPORATION>>), Join(<<W_apple, W_computer>>)}
StoreNames == AppleNames
Tickers == {NoValue, <<"A">>, <<"a">>}
Ciks == {NoValue, <<"1">>}

W_PAC == <<"P", "A", "C">>
W_COMMITTEE == <<"C", "O", "M", "M", "I", "T", "T", "E", "E">>
W_POLITICAL == <<"P", "O", "L", "I", "T", "I", "C", "A", "L">>
W_ACTION == <<"A", "C", "T", "I", "O", "N">>

\* The values of committee_name, client_name, foundation_ein and company_name
\* in the records of the model
PacNames == {Join(<<W_Apple, W_PAC>>), Join(<<W_APPLE, W_CORPORATION, W_COMMITTEE>>),
             W_apple, <<>>}
ClientNames == {S_AppleInc, Join(<<W_apple, W_computer>>), W_IncDot, <<" ">>}
FoundationEins == {"13-3398765", "00-0000000"}
SecNames == {S_AppleInc, Join(<<W_APPLE, W_CORPORATION>>), <<>>}

\* The patterns of _extract_company_from_pac, as words separated by \s+
PacPatterns == <<<<W_PAC>>, <<W_POLITICAL, W_ACTION, W_COMMITTEE>>, <<W_COMMITTEE>>>>

\* str[p ..] starts with \s+ and then the words, separated by \s+ (IGNORECASE)
RECURSIVE MatchesWords(_, _, _)
MatchesWords(str, p, ws) ==
    IF ws = <<>> THEN TRUE
    ELSE /\ p <= Len(str)
         /\ IsSpace(str[p])
         /\ LET rest == LStrip(SubSeq(str, p, Len(str)))
                w == Head(ws)
            IN  /\ Len(rest) >= Len(w)
                /\ Lower(SubSeq(rest, 1, Len(w))) = Lower(w)
                /\ MatchesWords(rest, Len(w) + 1, Tail(ws))

\* re.search(r'(.+?)\s+WORDS', pac_name, re.IGNORECASE): where the shortest
\* non-empty group(1) ends, 0 if there is no match
GroupEnd(str, ws) ==
    LET P == {p \in 2 .. Len(str) : MatchesWords(str, p, ws)}
    IN  IF P = {} THEN 0 ELSE Min(P) - 1

_extract_company_from_pac(pac_name) ==
    IF pac_name = <<>> THEN <<>>
    ELSE IF GroupEnd(pac_name, PacPatterns[1]) # 0
      THEN Strip(SubSeq(pac_name, 1, GroupEnd(pac_name, PacPatterns[1])))
    ELSE IF GroupEnd(pac_name, PacPatterns[2]) # 0
      THEN Strip(SubSeq(pac_name, 1, GroupEnd(pac_name, PacPatterns[2])))
    ELSE IF GroupEnd(pac_name, PacPatterns[3]) # 0
      THEN Strip(SubSeq(pac_name, 1, GroupEnd(pac_name, PacPatterns[3])))
    ELSE pac_name

\* _get_company_from_foundation: foundation_mapping.get(foundation_ein, '')
_get_company_from_foundation(foundation_ein) ==
    IF foundation_ein = "13-3398765" THEN S_AppleInc
    ELSE IF foundation_ein = "91-1144442" THEN S_MicrosoftCorporation
    ELSE IF foundation_ein = "94-3068481" THEN S_AlphabetInc
    ELSE <<>>

\* Every name the model passes to _find_or_create_company
ResolvedNames ==
    StoreNames \cup ClientNames \cup SecNames
        \cup {_extract_company_from_pac(n) : n \in PacNames}
        \cup {_get_company_from_foundation(e) : e \in FoundationEins}

\* The name the lookups use: the mapped name if the normalized name is a key
LookupName(name) ==
    IF _normalize_company_name(name) \in MappedKeys
      THEN Mapped(_normalize_company_name(name))
      ELSE name

\* LookupName, tabulated over the names of the model
LookupNameOf == [n \in ResolvedNames |-> LookupName(n)]

\* A variant whose lookup by name uses the normalized name
FindByNameNormalized(cs, name) == First(ByNameIexact(cs, _normalize_company_name(name)))

\* Try to find by name
FindByName(cs, name) == First(ByNameIexact(cs, name))

\* The Company found by name, else by ticker, else by CIK; 0 if none is found
FindCompany(cs, name, ticker, cik) ==
    LET by_name == FindByName(cs, name)
        by_ticker == IF by_name = 0 /\ ticker # NoValue
                       THEN First(ByTickerIexact(cs, ticker)) ELSE by_name
    IN  IF by_ticker = 0 /\ cik # NoValue THEN First(ByCik(cs, cik)) ELSE by_ticker

\* _find_or_create_company(name, ticker, cik) on the rows cs: the primary key
\* of the Company returned and the rows afterwards
_find_or_create_company(cs, name, ticker, cik) ==
    LET n == LookupNameOf[name]
        found == FindCompany(cs, n, ticker, cik)
    IN  IF found # 0
          THEN [pk |-> found, companies |-> cs, created |-> FALSE]
          ELSE [pk |-> Len(cs) + 1,
                companies |-> Append(cs, Company(n, ticker, cik)),
                created |-> TRUE]

NoCallYet == [args |-> <<>>, pk |-> 0, created |-> FALSE]

\* The stores the model starts from: up to MaxInitialRows rows of any content
InitialStores ==
    UNION {[1 .. n -> {Company(nm, tk, ck) : nm \in StoreNames, tk \in Tickers, ck \in Ciks}]
             : n \in 0 .. MaxInitialRows}

StoreInit ==
    /\ companies \in InitialStores
    /\ summaries = <<>>
    /\ s_ops = Len(companies)
    /\ s_from_empty = (companies = <<>>)
    /\ s_prev = NoCallYet
    /\ s_last = NoCallYet
    /\ s_returned = <<>>
    /\ s_latest = <<>>
    /\ dependents = 0
    /\ p_skipped = FALSE

StoreIdle ==
    /\ companies = <<>>
    /\ summaries = <<>>
    /\ s_ops = MaxOps
    /\ s_from_empty = TRUE
    /\ s_prev = NoCallYet
    /\ s_last = NoCallYet
    /\ s_returned = <<>>
    /\ s_latest = <<>>
    /\ dependents = 0
    /\ p_skipped = FALSE

\* f with key k set to value v, k added to its domain if it is not in it
Put(f, k, v) == [x \in DOMAIN f \cup {k} |-> IF x = k THEN v ELSE f[x]]

StoreFrame ==
    UNCHANGED <<retryVars, breakerVars, counterVars, fetchVars, fecVars, normVars, raceVars,
                spendVars, pureVars>>

\* One call company = self._find_or_create_company(name, ticker, cik)
Resolve ==
    /\ s_ops < MaxOps
    /\ \E name \in StoreNames, ticker \in Tickers, cik \in Ciks :
          LET r == _find_or_create_company(companies, name, ticker, cik)
              args == <<name, ticker, cik>>
          IN  /\ companies' = r.companies
              /\ s_prev' = s_last
              /\ s_last' = [args |-> args, pk |-> r.pk, created |-> r.created]
              /\ s_returned' = Put(s_returned, args, r.pk)
    /\ s_ops' = s_ops + 1
    /\ UNCHANGED <<summaries, s_from_empty, s_latest, dependents, p_skipped>>
    /\ StoreFrame

\* The store of the processing runs: no Company at the start
ProcessInit ==
    /\ companies = <<>>
    /\ summaries = <<>>
    /\ s_ops = 0
    /\ s_from_empty = TRUE
    /\ s_prev = NoCallYet
    /\ s_last = NoCallYet
    /\ s_returned = <<>>
    /\ s_latest = <<>>
    /\ dependents = 0
    /\ p_skipped = FALSE

\* company = self._find_or_create_company(company_name) of process_fec_data,
\* process_lobbying_data and process_irs_data: the rows of Company afterwards.
\* The row of PoliticalContribution, LobbyingReport or CharitableGrant created
\* next does not touch Company or FinancialSummary and is left out.
ResolveByName(cs, company_name) ==
    _find_or_create_company(cs, company_name, NoValue, NoValue).companies

\* _extract_company_from_pac and _normalize_company_name, tabulated over the
\* names of the model
ExtractedCompanyOf == [n \in PacNames |-> _extract_company_from_pac(n)]
NormalizedOf == [n \in ClientNames |-> _normalize_company_name(n)]

\* A loop that goes on with a record that has no organization name
SkipsNoRecord(company_name) == FALSE

\* if not company_name: continue
SkipsRecord(company_name) == company_name = <<>>

\* The rest of an iteration of process_fec_data, process_lobbying_data or
\* process_irs_data once company_name is known: the record is skipped, or the
\* Company is resolved by name and the dependent row is created
ProcessNamed(company_name, name) ==
    IF SkipsRecord(company_name)
      THEN /\ p_skipped' = TRUE
           /\ UNCHANGED <<companies, dependents>>
      ELSE /\ p_skipped' = FALSE
           /\ companies' = ResolveByName(companies, name)
           /\ dependents' = dependents + 1

\* One iteration of the loop of process_fec_data
ProcessFecRecord ==
    /\ s_ops < MaxOps
    /\ \E pac_name \in PacNames :
          ProcessNamed(ExtractedCompanyOf[pac_name], ExtractedCompanyOf[pac_name])
    /\ s_ops' = s_ops + 1
    /\ UNCHANGED <<summaries, s_from_empty, s_prev, s_last, s_returned, s_latest>>
    /\ StoreFrame

\* One iteration of the loop of process_lobbying_data
ProcessLobbyingRecord ==
    /\ s_ops < MaxOps
    /\ \E client_name \in ClientNames :
          ProcessNamed(NormalizedOf[client_name], client_name)
    /\ s_ops' = s_ops + 1
    /\ UNCHANGED <<summaries, s_from_empty, s_prev, s_last, s_returned, s_latest>>
    /\ StoreFrame

\* One iteration of the loop of process_irs_data
ProcessIrsRecord ==
    /\ s_ops < MaxOps
    /\ \E foundation_ein \in FoundationEins :
          ProcessNamed(_get_company_from_foundation(foundation_ein),
                       _get_company_from_foundation(foundation_ein))
    /\ s_ops' = s_ops + 1
    /\ UNCHANGED <<summaries, s_from_empty, s_prev, s_last, s_returned, s_latest>>
    /\ StoreFrame

\* The records of sec_data; fiscal_year 0 stands for an absent fiscal_year
NoFiscalYear == 0
FiscalYears == {NoFiscalYear, 2023}
Figures == {[total_revenue |-> 10, net_income |-> 1], [total_revenue |-> 20, net_income |-> 2]}

SecRecords ==
    {[company_name |-> nm, ticker |-> tk, cik |-> ck, fiscal_year |-> fy,
      total_revenue |-> fg.total_revenue, net_income |-> fg.net_income] :
        nm \in SecNames, tk \in Tickers, ck \in Ciks, fy \in FiscalYears, fg \in Figures}

\* if cik and not company.cik: company.cik = cik; the same for ticker; save()
BackFill(c, ticker, cik) ==
    [c EXCEPT !.cik = IF cik # NoValue /\ c.cik = NoValue THEN cik ELSE @,
              !.ticker = IF ticker # NoValue /\ c.ticker = NoValue THEN ticker ELSE @]

Summary(pk, financial) ==
    [company |-> pk, fiscal_year |-> financial.fiscal_year,
     total_revenue |-> financial.total_revenue, net_income |-> financial.net_income]

\* The rows of FinancialSummary of a company and a fiscal year
SummariesOf(rows, pk, fiscal_year) ==
    {k \in 1 .. Len(rows) : rows[k].company = pk /\ rows[k].fiscal_year = fiscal_year}

\* A variant of the update that writes total_revenue only
UpdateSummaryRevenueOnly(row, financial) ==
    [row EXCEPT !.total_revenue = financial.total_revenue]

\* if not created: financial_summary.total_revenue = ...; .net_income = ...; save()
UpdateSummary(row, financial) ==
    [row EXCEPT !.total_revenue = financial.total_revenue,
                !.net_income = financial.net_income]

\* FinancialSummary.objects.get_or_create(company, fiscal_year, defaults) and
\* the update of the row when it was not created
GetOrCreateSummary(rows, pk, financial) ==
    IF SummariesOf(rows, pk, financial.fiscal_year) = {}
      THEN Append(rows, Summary(pk, financial))
      ELSE LET k == First(SummariesOf(rows, pk, financial.fiscal_year))
           IN  [rows EXCEPT ![k] = UpdateSummary(rows[k], financial)]

\* What the latest record of a (company, fiscal_year) said, and how many
\* records of the pair have been processed
Observed(latest, key, financial) ==
    [total_revenue |-> financial.total_revenue,
     net_income |-> financial.net_income,
     first_revenue |-> IF key \in DOMAIN latest THEN latest[key].first_revenue
                       ELSE financial.total_revenue,
     n |-> IF key \in DOMAIN latest THEN latest[key].n + 1 ELSE 1]

\* One iteration of the loop of process_sec_data
ProcessSecRecord ==
    /\ s_ops < MaxOps
    /\ \E financial \in SecRecords :
          IF SkipsRecord(financial.company_name)
            THEN /\ p_skipped' = TRUE
                 /\ UNCHANGED <<companies, summaries, s_latest>>
            ELSE LET r == _find_or_create_company(companies, financial.company_name,
                                                  financial.ticker, financial.cik)
                     key == <<r.pk, financial.fiscal_year>>
                 IN  /\ p_skipped' = FALSE
                     /\ companies' =
                           [r.companies EXCEPT
                              ![r.pk] = BackFill(@, financial.ticker, financial.cik)]
                     /\ IF financial.fiscal_year # NoFiscalYear
                          THEN /\ summaries' = GetOrCreateSummary(summaries, r.pk, financial)
                               /\ s_latest' = Put(s_latest, key,
                                                  Observed(s_latest, key, financial))
                          ELSE UNCHANGED <<summaries, s_latest>>
    /\ s_ops' = s_ops + 1
    /\ UNCHANGED <<s_from_empty, s_prev, s_last, s_returned, dependents>>
    /\ StoreFrame

ProcessNext ==
    \/ ProcessFecRecord
    \/ ProcessLobbyingRecord
    \/ ProcessIrsRecord
    \/ ProcessSecRecord

\* ------------------------------------------------------------------------
\* Two ingestion runs calling _find_or_create_company at the same time
\* ------------------------------------------------------------------------
Runs == {"run1", "run2"}

RaceInit ==
    /\ companies \in InitialStores
    /\ race_args \in StoreNames \X Tickers \X Ciks
    /\ race_unseen =
          (FindCompany(companies, LookupNameOf[race_args[1]], race_args[2], race_args[3]) = 0)
    /\ race_pc = [r \in Runs |-> "find"]
    /\ race_company = [r \in Runs |-> 0]
    /\ summaries = <<>>
    /\ s_ops = MaxOps
    /\ s_from_empty = (companies = <<>>)
    /\ s_prev = NoCallYet
    /\ s_last = NoCallYet
    /\ s_returned = <<>>
    /\ s_latest = <<>>
    /\ dependents = 0
    /\ p_skipped = FALSE

RaceIdle ==
    /\ race_args = <<S_AppleInc, NoValue, NoValue>>
    /\ race_unseen = TRUE
    /\ race_pc = [r \in Runs |-> "idle"]
    /\ race_company = [r \in Runs |-> 0]

RaceFrame ==
    /\ UNCHANGED <<summaries, s_ops, s_from_empty, s_prev, s_last, s_returned, s_latest>>
    /\ UNCHANGED <<dependents, p_skipped>>
    /\ UNCHANGED <<race_args, race_unseen>>
    /\ UNCHANGED <<retryVars, breakerVars, counterVars, fetchVars, fecVars, normVars,
                   spendVars, pureVars>>

\* The lookups of a run: by name, then by ticker, then by CIK
RaceFind(r) ==
    /\ race_pc[r] = "find"
    /\ race_company' =
          [race_company EXCEPT
             ![r] = FindCompany(companies, LookupNameOf[race_args[1]],
                                race_args[2], race_args[3])]
    /\ race_pc' = [race_pc EXCEPT ![r] = "create"]
    /\ UNCHANGED companies
    /\ RaceFrame

\* if not company: company = Company.objects.create(...); return company
RaceCreate(r) ==
    /\ race_pc[r] = "create"
    /\ IF race_company[r] = 0
         THEN /\ companies' = Append(companies, Company(LookupNameOf[race_args[1]],
                                                         race_args[2], race_args[3]))
              /\ race_company' = [race_company EXCEPT ![r] = Len(companies) + 1]
         ELSE UNCHANGED <<companies, race_company>>
    /\ race_pc' = [race_pc EXCEPT ![r] = "done"]
    /\ RaceFrame

RaceNext == \E r \in Runs : RaceFind(r) \/ RaceCreate(r)

\* ------------------------------------------------------------------------
\* SpendingCalculator
\* ------------------------------------------------------------------------
\* A date is a year and a day in it; NoDate is None. Amounts are in cents.
Date(y, d) == [year |-> y, day |-> d]
NoDate == Date(0, 0)
Dates == {Date(2022, 1), Date(2022, 2), Date(2023, 1)}

\* date_a <= date_b
DateLeq(a, b) == a.year < b.year \/ (a.year = b.year /\ a.day <= b.day)

\* The names of the Company rows, by id; the third is blank
CompanyNames ==
    <<S_AppleInc,
      <<"A", "C", "M", "E", " ", "C", "o", "r", "p">>,
      <<" ">>>>
CompanyIds == 1 .. Len(CompanyNames)

\* The values of company_pac_id
PacIds ==
    {<<"P", "I", "N", "E", "A", "P", "P", "L", "E", " ", "P", "A", "C">>,
     <<"A", "c", "m", "e", " ", "P", "A", "C">>}

\* company.name.split(): the first part, <<>> if there is none
FirstPart(name) ==
    LET s == LStrip(name)
    IN  IF SpacesOf(s) = {} THEN s ELSE SubSeq(s, 1, Min(SpacesOf(s)) - 1)

\* company_pac_id__icontains=part
IContains(str, part) ==
    \E i \in 1 .. Len(str) - Len(part) + 1 :
        Lower(SubSeq(str, i, i + Len(part) - 1)) = Lower(part)

\* Per company, the values of company_pac_id its political query matches
MatchingPacs ==
    [c \in CompanyIds |->
        IF FirstPart(CompanyNames[c]) = <<>> THEN {}
        ELSE {pac \in PacIds : IContains(pac, FirstPart(CompanyNames[c]))}]

Amounts == {3, 5}
Years == {d.year : d \in Dates}

LobbyingReports ==
    {[kind |-> "lobbying", company |-> c, year |-> y, amount_spent |-> a] :
        c \in {1, 2}, y \in Years, a \in Amounts}
CharitableGrants ==
    {[kind |-> "charitable", company |-> c, fiscal_year |-> y, amount |-> a] :
        c \in {1, 2}, y \in Years, a \in Amounts}
PoliticalContributions ==
    {[kind |-> "political", company_pac_id |-> pac, date |-> d, amount |-> a] :
        pac \in PacIds, d \in Dates, a \in Amounts}

AllRows == LobbyingReports \cup CharitableGrants \cup PoliticalContributions

\* The sets of up to n of the rows
RECURSIVE RowSets(_)
RowSets(n) ==
    IF n = 0 THEN {{}}
    ELSE RowSets(n - 1) \cup {db \cup {r} : db \in RowSets(n - 1), r \in AllRows}

\* The databases of the model: up to MaxRows rows
Databases == RowSets(MaxRows)

\* aggregate(total=Sum(field)) over rows, with `total or Decimal('0')`
RECURSIVE SumOf(_, _)
SumOf(rows, field) ==
    IF rows = {} THEN 0
    ELSE LET r == CHOOSE r \in rows : TRUE
         IN  r[field] + SumOf(rows \ {r}, field)

_calculate_lobbying_spending(db, company, start_date, end_date) ==
    SumOf({r \in db : /\ r.kind = "lobbying"
                       /\ r.company = company
                       /\ (start_date # NoDate => r.year >= start_date.year)
                       /\ (end_date # NoDate => r.year <= end_date.year)},
          "amount_spent")

_calculate_charitable_spending(db, company, start_date, end_date) ==
    SumOf({r \in db : /\ r.kind = "charitable"
                       /\ r.company = company
                       /\ (start_date # NoDate => r.fiscal_year >= start_date.year)
                       /\ (end_date # NoDate => r.fiscal_year <= end_date.year)},
          "amount")

\* A variant that compares the year of the contribution, not its date
PoliticalInRangeByYear(r, start_date, end_date) ==
    /\ (start_date # NoDate => r.date.year >= start_date.year)
    /\ (end_date # NoDate => r.date.year <= end_date.year)

\* queryset.filter(date__gte=start_date) and queryset.filter(date__lte=end_date)
PoliticalInRange(r, start_date, end_date) ==
    /\ (start_date # NoDate => DateLeq(start_date, r.date))
    /\ (end_date # NoDate => DateLeq(r.date, end_date))

_calculate_political_spending(db, company, start_date, end_date) ==
    SumOf({r \in db : /\ r.kind = "political"
                       /\ r.company_pac_id \in MatchingPacs[company]
                       /\ PoliticalInRange(r, start_date, end_date)},
          "amount")

Categories == {"all", "lobbying", "charitable", "political", "other"}

\* A variant in which 'all' selects nothing
CategorySelectsOnlyItself(category, which) == category = which

\* if category in ['all', which]
CategorySelects(category, which) == category \in {"all", which}

calculate_company_spending(db, company, category, start_date, end_date) ==
    LET lobbying == IF CategorySelects(category, "lobbying")
                      THEN _calculate_lobbying_spending(db, company, start_date, end_date)
                      ELSE 0
        charitable == IF CategorySelects(category, "charitable")
                        THEN _calculate_charitable_spending(db, company, start_date, end_date)
                        ELSE 0
        political == IF CategorySelects(category, "political")
                       THEN _calculate_political_spending(db, company, start_date, end_date)
                       ELSE 0
    IN  [lobbying |-> lobbying, charitable |-> charitable, political |-> political,
         total |-> lobbying + charitable + political]

\* A variant of the sort that puts the smallest total first
RECURSIVE InsertAscending(_, _)
InsertAscending(sorted, e) ==
    IF sorted = <<>> THEN <<e>>
    ELSE IF Head(sorted).total > e.total THEN <<e>> \o sorted
    ELSE <<Head(sorted)>> \o InsertAscending(Tail(sorted), e)

\* e put in a list sorted by total, largest first, after the entries of equal
\* total (list.sort is stable, reverse=True included)
RECURSIVE InsertSorted(_, _)
InsertSorted(sorted, e) ==
    IF sorted = <<>> THEN <<e>>
    ELSE IF Head(sorted).total < e.total THEN <<e>> \o sorted
    ELSE <<Head(sorted)>> \o InsertSorted(Tail(sorted), e)

\* results.sort(key=lambda x: x['spending']['total'], reverse=True)
RECURSIVE SortByTotal(_)
SortByTotal(results) ==
    IF results = <<>> THEN <<>>
    ELSE InsertSorted(SortByTotal(SubSeq(results, 1, Len(results) - 1)),
                      results[Len(results)])

\* The loop of get_top_spenders over Company.objects.all() up to company k
RECURSIVE SpendersUpTo(_, _, _, _, _)
SpendersUpTo(db, k, category, start_date, end_date) ==
    IF k = 0 THEN <<>>
    ELSE LET spending == calculate_company_spending(db, k, category, start_date, end_date)
             before == SpendersUpTo(db, k - 1, category, start_date, end_date)
         IN  IF spending.total > 0
               THEN Append(before, [id |-> k, total |-> spending.total])
               ELSE before

\* results[:limit] for a limit that is not negative
Slice(results, limit) == SubSeq(results, 1, IF limit < Len(results) THEN limit ELSE Len(results))

get_top_spenders(db, limit, category, start_date, end_date) ==
    Slice(SortByTotal(SpendersUpTo(db, Len(CompanyNames), category, start_date, end_date)),
          limit)

\* None for min_spending or max_spending
NoBound == -1
SpendingBounds == {NoBound, 0, 4, 8}

\* `not min_spending`: None and Decimal('0') are both false
NotGiven(bound) == bound = NoBound \/ bound = 0

\* The loop of filter_companies_by_spending over the companies of queryset
RECURSIVE MatchingCompanyIds(_, _, _, _, _, _)
MatchingCompanyIds(db, queryset, min_spending, max_spending, start_date, end_date) ==
    IF queryset = <<>> THEN <<>>
    ELSE LET company == Head(queryset)
             total_spending ==
                 calculate_company_spending(db, company, "all", start_date, end_date).total
             rest == MatchingCompanyIds(db, Tail(queryset), min_spending, max_spending,
                                        start_date, end_date)
         IN  IF ~NotGiven(min_spending) /\ total_spending < min_spending THEN rest
             ELSE IF ~NotGiven(max_spending) /\ total_spending > max_spending THEN rest
             ELSE <<company>> \o rest

filter_companies_by_spending(db, queryset, min_spending, max_spending, start_date, end_date) ==
    IF NotGiven(min_spending) /\ NotGiven(max_spending)
      THEN queryset
      ELSE MatchingCompanyIds(db, queryset, min_spending, max_spending, start_date, end_date)

\* The querysets of companies passed to filter_companies_by_spending
Querysets == {<<1, 2, 3>>, <<2, 1>>}

\* The date ranges of the calls of get_top_spenders and filter_companies_by_spending
SomeRanges == {<<NoDate, NoDate>>, <<Date(2022, 2), Date(2023, 1)>>}

Query(op, company, category, range, limit, queryset, min_spending, max_spending) ==
    [op |-> op, company |-> company, category |-> category,
     start_date |-> range[1], end_date |-> range[2], limit |-> limit,
     queryset |-> queryset, min_spending |-> min_spending, max_spending |-> max_spending]

NoQuery == Query("none", 0, "all", <<NoDate, NoDate>>, 0, <<>>, NoBound, NoBound)

SpendingInit ==
    /\ sp_db \in Databases
    /\ sp_pc = "start"
    /\ sp_q = NoQuery
    /\ sp_result = <<>>

SpendingIdle ==
    /\ sp_db = {}
    /\ sp_pc = "idle"
    /\ sp_q = NoQuery
    /\ sp_result = <<>>

SpendingFrame ==
    /\ UNCHANGED sp_db
    /\ UNCHANGED <<retryVars, breakerVars, counterVars, fetchVars, fecVars>>
    /\ UNCHANGED <<normVars, storeVars, raceVars, pureVars>>

\* SpendingCalculator.calculate_company_spending(company, category, start_date, end_date)
CalculateCompanySpending ==
    /\ sp_pc = "start"
    /\ \E company \in CompanyIds, category \in Categories,
          start_date \in Dates \cup {NoDate}, end_date \in Dates \cup {NoDate} :
          /\ sp_q' = Query("calculate", company, category, <<start_date, end_date>>,
                           0, <<>>, NoBound, NoBound)
          /\ sp_result' = calculate_company_spending(sp_db, company, category,
                                                     start_date, end_date)
    /\ sp_pc' = "done"
    /\ SpendingFrame

\* SpendingCalculator.get_top_spenders(limit, category, start_date, end_date)
GetTopSpenders ==
    /\ sp_pc = "start"
    /\ \E limit \in 0 .. MaxLimit, category \in Categories, range \in SomeRanges :
          /\ sp_q' = Query("top", 0, category, range, limit, <<>>, NoBound, NoBound)
          /\ sp_result' = get_top_spenders(sp_db, limit, category, range[1], range[2])
    /\ sp_pc' = "done"
    /\ SpendingFrame

\* SpendingCalculator.filter_companies_by_spending(queryset, min_spending,
\* max_spending, start_date, end_date)
FilterCompaniesBySpending ==
    /\ sp_pc = "start"
    /\ \E queryset \in Querysets, min_spending \in SpendingBounds,
          max_spending \in SpendingBounds, range \in SomeRanges :
          /\ sp_q' = Query("filter", 0, "all", range, 0, queryset, min_spending, max_spending)
          /\ sp_result' = filter_companies_by_spending(sp_db, queryset, min_spending,
                                                       max_spending, range[1], range[2])
    /\ sp_pc' = "done"
    /\ SpendingFrame

SpendingNext ==
    \/ CalculateCompanySpending
    \/ GetTopSpenders
    \/ FilterCompaniesBySpending

\* ------------------------------------------------------------------------
\* calculate_delay called for attempt -1, 0, 1, 2, ... on one instance
\* ------------------------------------------------------------------------
\* base_delay 0, 0.5, 1.0, 2.0; max_delay 0, 5.0, 10.0, 30.0, 60.0;
\* exponential_base 1, 2, 3
BaseDelays == {0, 500, Seconds(1), Seconds(2)}
MaxDelays == {0, Seconds(5), Seconds(10), Seconds(30), Seconds(60)}
ExponentialBases == {1, 2, 3}

DelayInit ==
    /\ d_cfg \in {BackoffConfig(b, c, f, j) :
                    b \in BaseDelays, c \in MaxDelays, f \in ExponentialBases,
                    j \in BOOLEAN}
    /\ d_attempt = -1
    /\ d_delay = 0
    /\ d_prev = 0

DelayIdle ==
    /\ d_cfg = DefaultBackoff
    /\ d_attempt = -1
    /\ d_delay = 0
    /\ d_prev = 0

\* delay = self.calculate_delay(d_attempt)
CalculateDelay ==
    /\ d_attempt <= MaxAttempt
    /\ \E u \in JitterDraws : d_delay' = calculate_delay(d_cfg, d_attempt, u)
    /\ d_prev' = d_delay
    /\ d_attempt' = d_attempt + 1
    /\ UNCHANGED d_cfg
    /\ UNCHANGED <<retryVars, breakerVars, counterVars, fetchVars, fecVars>>
    /\ UNCHANGED <<normVars, storeVars, raceVars, spendVars, classifyVars, seqVars>>

\* ------------------------------------------------------------------------
\* IRSIngestion._classify_recipient
\* ------------------------------------------------------------------------
\* The same categories in alphabetical order
CategoryOrderSorted ==
    <<"Arts", "Education", "Environment", "Healthcare", "Humanitarian", "Religious">>

\* self.category_keywords, in the order of the dict
CategoryOrder == <<"Religious", "Education", "Healthcare", "Humanitarian", "Environment", "Arts">>

category_keywords ==
    [Religious |->
        { <<"c", "h", "u", "r", "c", "h">>,
          <<"t", "e", "m", "p", "l", "e">>,
          <<"m", "o", "s", "q", "u", "e">>,
          <<"s", "y", "n", "a", "g", "o", "g", "u", "e">>,
          <<"m", "i", "n", "i", "s", "t", "r", "y">>,
          <<"m", "i", "s", "s", "i", "o", "n">>,
          <<"c", "a", "t", "h", "o", "l", "i", "c">>,
          <<"p", "r", "o", "t", "e", "s", "t", "a", "n", "t">>,
          <<"b", "a", "p", "t", "i", "s", "t">>,
          <<"m", "e", "t", "h", "o", "d", "i", "s", "t">>,
          <<"l", "u", "t", "h", "e", "r", "a", "n">>,
          <<"p", "r", "e", "s", "b", "y", "t", "e", "r", "i", "a", "n">>,
          <<"e", "p", "i", "s", "c", "o", "p", "a", "l">>,
          <<"o", "r", "t", "h", "o", "d", "o", "x">>,
          <<"j", "e", "w", "i", "s", "h">>,
          <<"i", "s", "l", "a", "m", "i", "c">>,
          <<"h", "i", "n", "d", "u">>,
          <<"b", "u", "d", "d", "h", "i", "s", "t">>,
          <<"r", "e", "l", "i", "g", "i", "o", "u", "s">>,
          <<"f", "a", "i", "t", "h">>,
          <<"s", "p", "i", "r", "i", "t", "u", "a", "l">>,
          <<"d", "i", "o", "c", "e", "s", "e">>,
          <<"a", "r", "c", "h", "d", "i", "o", "c", "e", "s", "e">>,
          <<"p", "a", "r", "i", "s", "h">>,
          <<"c", "o", "n", "g", "r", "e", "g", "a", "t", "i", "o", "n">> },
     Education |->
        { <<"u", "n", "i", "v", "e", "r", "s", "i", "t", "y">>,
          <<"c", "o", "l", "l", "e", "g", "e">>,
          <<"s", "c", "h", "o", "o", "l">>,
          <<"a", "c", "a", "d", "e", "m", "y">>,
          <<"i", "n", "s", "t", "i", "t", "u", "t", "e">>,
          <<"f", "o", "u", "n", "d", "a", "t", "i", "o", "n">>,
          <<"s", "c", "h", "o", "l", "a", "r", "s", "h", "i", "p">>,
          <<"e", "d", "u", "c", "a", "t", "i", "o", "n">>,
          <<"l", "e", "a", "r", "n", "i", "n", "g">>,
          <<"r", "e", "s", "e", "a", "r", "c", "h">>,
          <<"l", "i", "b", "r", "a", "r", "y">>,
          <<"m", "u", "s", "e", "u", "m">>,
          <<"t", "r", "a", "i", "n", "i", "n", "g">> },
     Healthcare |->
        { <<"h", "o", "s", "p", "i", "t", "a", "l">>,
          <<"m", "e", "d", "i", "c", "a", "l">>,
          <<"h", "e", "a", "l", "t", "h">>,
          <<"c", "l", "i", "n", "i", "c">>,
          <<"c", "a", "r", "e">>,
          <<"t", "r", "e", "a", "t", "m", "e", "n", "t">>,
          <<"t", "h", "e", "r", "a", "p", "y">>,
          <<"r", "e", "h", "a", "b", "i", "l", "i", "t", "a", "t", "i", "o", "n">>,
          <<"w", "e", "l", "l", "n", "e", "s", "s">>,
          <<"d", "i", "s", "e", "a", "s", "e">>,
          <<"c", "a", "n", "c", "e", "r">>,
          <<"h", "e", "a", "r", "t">>,
          <<"m", "e", "n", "t", "a", "l", " ", "h", "e", "a", "l", "t", "h">> },
     Humanitarian |->
        { <<"r", "e", "d", " ", "c", "r", "o", "s", "s">>,
          <<"s", "a", "l", "v", "a", "t", "i", "o", "n", " ", "a", "r", "m", "y">>,
          <<"u", "n", "i", "t", "e", "d", " ", "w", "a", "y">>,
          <<"h", "u", "m", "a", "n", "i", "t", "a", "r", "i", "a", "n">>,
          <<"d", "i", "s", "a", "s", "t", "e", "r">>,
          <<"r", "e", "l", "i", "e", "f">>,
          <<"e", "m", "e", "r", "g", "e", "n", "c", "y">>,
          <<"a", "i", "d">>,
          <<"a", "s", "s", "i", "s", "t", "a", "n", "c", "e">>,
          <<"c", "h", "a", "r", "i", "t", "y">>,
          <<"h", "e", "l", "p">>,
          <<"s", "u", "p", "p", "o", "r", "t">>,
          <<"c", "o", "m", "m", "u", "n", "i", "t", "y">> },
     Environment |->
        { <<"e", "n", "v", "i", "r", "o", "n", "m", "e", "n", "t">>,
          <<"c", "o", "n", "s", "e", "r", "v", "a", "t", "i", "o", "n">>,
          <<"w", "i", "l", "d", "l", "i", "f", "e">>,
          <<"n", "a", "t", "u", "r", "e">>,
          <<"c", "l", "i", "m", "a", "t", "e">>,
          <<"s", "u", "s", "t", "a", "i", "n", "a", "b", "i", "l", "i", "t", "y">>,
          <<"g", "r", "e", "e", "n">>,
          <<"e", "c", "o", "l", "o", "g", "y">>,
          <<"f", "o", "r", "e", "s", "t">>,
          <<"o", "c", "e", "a", "n">>,
          <<"c", "l", "e", "a", "n">>,
          <<"r", "e", "n", "e", "w", "a", "b", "l", "e">> },
     Arts |->
        { <<"a", "r", "t">>,
          <<"m", "u", "s", "e", "u", "m">>,
          <<"g", "a", "l", "l", "e", "r", "y">>,
          <<"t", "h", "e", "a", "t", "e", "r">>,
          <<"t", "h", "e", "a", "t", "r", "e">>,
          <<"m", "u", "s", "i", "c">>,
          <<"d", "a", "n", "c", "e">>,
          <<"p", "e", "r", "f", "o", "r", "m", "a", "n", "c", "e">>,
          <<"c", "u", "l", "t", "u", "r", "a", "l">>,
          <<"c", "r", "e", "a", "t", "i", "v", "e">>,
          <<"a", "r", "t", "s">>,
          <<"e", "n", "t", "e", "r", "t", "a", "i", "n", "m", "e", "n", "t">> }]

\* keyword in text
Contains(text, keyword) ==
    \E i \in 1 .. Len(text) - Len(keyword) + 1 :
        SubSeq(text, i, i + Len(keyword) - 1) = keyword

\* for category, keywords in self.category_keywords.items(): ... return category;
\* return 'Other'
RECURSIVE ClassifyFrom(_, _)
ClassifyFrom(text, i) ==
    IF i > Len(CategoryOrder) THEN "Other"
    ELSE IF \E keyword \in category_keywords[CategoryOrder[i]] :
                Contains(text, Lower(keyword))
      THEN CategoryOrder[i]
    ELSE ClassifyFrom(text, i + 1)

\* text = f"{recipient_name} {description}".lower()
ClassifiedText(recipient_name, description) ==
    Lower(recipient_name \o <<" ">> \o description)

_classify_recipient(recipient_name, description) ==
    ClassifyFrom(ClassifiedText(recipient_name, description), 1)

\* The words recipient names and descriptions are made of
RecipientWords ==
    { <<"c", "h", "u", "r", "c", "h">>, <<"s", "c", "h", "o", "o", "l">>,
      <<"M", "u", "s", "e", "u", "m">>, <<"h", "e", "a", "r", "t">>,
      <<"p", "a", "r", "t", "y">>, <<"C", "L", "I", "N", "I", "C">>,
      <<"r", "e", "d">>, <<"c", "r", "o", "s", "s">>,
      <<"o", "c", "e", "a", "n">>, <<"z", "o", "o">> }

\* Recipient names of up to MaxNameWords words; descriptions of up to one word
RecipientNames ==
    {Join(ws) : ws \in UNION {[1 .. n -> RecipientWords] : n \in 0 .. MaxNameWords}}
Descriptions == RecipientWords \cup {<<>>}

ClassifyInit ==
    /\ c_pc = "start"
    /\ c_name \in RecipientNames
    /\ c_description \in Descriptions
    /\ c_category = "none"

ClassifyIdle ==
    /\ c_pc = "idle"
    /\ c_name = <<>>
    /\ c_description = <<>>
    /\ c_category = "none"

\* category = self._classify_recipient(recipient_name, description)
Classify ==
    /\ c_pc = "start"
    /\ c_pc' = "done"
    /\ c_category' = _classify_recipient(c_name, c_description)
    /\ UNCHANGED <<c_name, c_description>>
    /\ UNCHANGED <<retryVars, breakerVars, counterVars, fetchVars, fecVars>>
    /\ UNCHANGED <<normVars, storeVars, raceVars, spendVars, delayVars, seqVars>>

\* ------------------------------------------------------------------------
\* APICallCounter and track_api_calls, used by one thread
\* ------------------------------------------------------------------------
\* How an invocation of the tracked function ends: it returns, or it raises
\* an exception of one of these types
TrackedOutcomes == {"return", "APIError", "ValueError"}

NoOperation == [op |-> "none", api |-> "none", outcome |-> "none", raised |-> "none"]

\* A dict with key k set to v
SetKey(dict, k, v) == [x \in DOMAIN dict \cup {k} |-> IF x = k THEN v ELSE dict[x]]

\* record_call that counts the call as a success whatever the flag
record_call_as_success(cs, api_name, success) ==
    LET old == IF api_name \in DOMAIN cs THEN cs[api_name] ELSE NewStats
    IN  SetKey(cs, api_name, [old EXCEPT !.total = @ + 1, !.success = @ + 1])

\* APICallCounter.record_call(api_name, success) on the dict self.calls
record_call(cs, api_name, success) ==
    LET old == IF api_name \in DOMAIN cs THEN cs[api_name] ELSE NewStats
    IN  SetKey(cs, api_name,
               [old EXCEPT !.total = @ + 1,
                           !.success = IF success THEN @ + 1 ELSE @,
                           !.failed = IF success THEN @ ELSE @ + 1])

\* APICallCounter.record_error(api_name, error_type) on the dict self.errors
record_error(es, api_name, error_type) ==
    LET of_api == IF api_name \in DOMAIN es THEN es[api_name] ELSE <<>>
        n == IF error_type \in DOMAIN of_api THEN of_api[error_type] ELSE 0
    IN  SetKey(es, api_name, SetKey(of_api, error_type, n + 1))

\* sum(stats[field] for stats in self.calls.values())
RECURSIVE SumField(_, _, _)
SumField(cs, keys, field) ==
    IF keys = {} THEN 0
    ELSE LET k == CHOOSE x \in keys : TRUE
         IN  cs[k][field] + SumField(cs, keys \ {k}, field)

\* APICallCounter.get_stats()
get_stats(cs, es) ==
    [calls |-> cs, errors |-> es,
     total_calls |-> SumField(cs, DOMAIN cs, "total"),
     total_errors |-> SumField(cs, DOMAIN cs, "failed")]

SeqInit ==
    /\ q_calls = <<>>
    /\ q_errors = <<>>
    /\ q_ops = 0
    /\ q_since = [api \in ApiNames |-> [invoked |-> 0, failed |-> 0]]
    /\ q_last = NoOperation

SeqIdle ==
    /\ q_calls = <<>>
    /\ q_errors = <<>>
    /\ q_ops = -1
    /\ q_since = [api \in ApiNames |-> [invoked |-> 0, failed |-> 0]]
    /\ q_last = NoOperation

SeqFrame ==
    /\ UNCHANGED <<retryVars, breakerVars, counterVars, fetchVars, fecVars>>
    /\ UNCHANGED <<normVars, storeVars, raceVars, spendVars, delayVars, classifyVars>>

\* One call of a function decorated with @track_api_calls(api_name)
TrackedCall ==
    /\ q_ops \in 0 .. MaxTrackedOps - 1
    /\ \E api_name \in ApiNames, outcome \in TrackedOutcomes :
          /\ q_calls' = record_call(q_calls, api_name, outcome = "return")
          /\ q_errors' = IF outcome = "return" THEN q_errors
                         ELSE record_error(q_errors, api_name, outcome)
          /\ q_since' = [q_since EXCEPT
                           ![api_name].invoked = @ + 1,
                           ![api_name].failed = IF outcome = "return" THEN @ ELSE @ + 1]
          /\ q_last' = [op |-> "call", api |-> api_name, outcome |-> outcome,
                        raised |-> IF outcome = "return" THEN "none" ELSE outcome]
    /\ q_ops' = q_ops + 1
    /\ SeqFrame

\* api_counter.reset()
ResetCounter ==
    /\ q_ops \in 0 .. MaxTrackedOps - 1
    /\ q_calls' = <<>>
    /\ q_errors' = <<>>
    /\ q_since' = [api \in ApiNames |-> [invoked |-> 0, failed |-> 0]]
    /\ q_last' = [NoOperation EXCEPT !.op = "reset"]
    /\ q_ops' = q_ops + 1
    /\ SeqFrame

SeqNext ==
    \/ TrackedCall
    \/ ResetCounter

PureIdle == DelayIdle /\ ClassifyIdle /\ SeqIdle

\* The data components at rest, for the specifications of the other components
DataIdle == NormalizeIdle /\ StoreIdle /\ RaceIdle /\ SpendingIdle /\ PureIdle

\* ------------------------------------------------------------------------
\* Specifications
\* ------------------------------------------------------------------------
InitRetry == RetryInit /\ BreakerIdle /\ CounterIdle /\ FetchIdle /\ DataIdle

InitCounter == CounterInit /\ RetryIdle /\ BreakerIdle /\ FetchIdle /\ DataIdle

SpecCounter == InitCounter /\ [][CounterNext]_vars

SpecRetry == InitRetry /\ [][RetryNext]_vars

InitBreaker == BreakerInit /\ RetryIdle /\ CounterIdle /\ FetchIdle /\ DataIdle

SpecBreaker == InitBreaker /\ [][BreakerNext]_vars

InitFetch == FetchInit /\ RetryIdle /\ BreakerIdle /\ CounterIdle /\ DataIdle

SpecFetch == InitFetch /\ [][FetchNext]_vars

InitNormalize ==
    /\ NormalizeInit /\ RetryIdle /\ BreakerIdle /\ CounterIdle /\ FetchIdle
    /\ StoreIdle /\ RaceIdle /\ SpendingIdle /\ PureIdle

SpecNormalize == InitNormalize /\ [][Normalize]_vars

InitResolve ==
    /\ StoreInit /\ RetryIdle /\ BreakerIdle /\ CounterIdle /\ FetchIdle
    /\ NormalizeIdle /\ RaceIdle /\ SpendingIdle /\ PureIdle

SpecResolve == InitResolve /\ [][Resolve]_vars

InitProcess ==
    /\ ProcessInit /\ RetryIdle /\ BreakerIdle /\ CounterIdle /\ FetchIdle
    /\ NormalizeIdle /\ RaceIdle /\ SpendingIdle /\ PureIdle

SpecProcess == InitProcess /\ [][ProcessNext]_vars

InitRace ==
    /\ RaceInit /\ RetryIdle /\ BreakerIdle /\ CounterIdle /\ FetchIdle
    /\ NormalizeIdle /\ SpendingIdle /\ PureIdle

SpecRace == InitRace /\ [][RaceNext]_vars

InitSpending ==
    /\ SpendingInit /\ RetryIdle /\ BreakerIdle /\ CounterIdle /\ FetchIdle
    /\ NormalizeIdle /\ StoreIdle /\ RaceIdle /\ PureIdle

SpecSpending == InitSpending /\ [][SpendingNext]_vars

InitDelay ==
    /\ DelayInit /\ RetryIdle /\ BreakerIdle /\ CounterIdle /\ FetchIdle
    /\ NormalizeIdle /\ StoreIdle /\ RaceIdle /\ SpendingIdle
    /\ ClassifyIdle /\ SeqIdle

SpecDelay == InitDelay /\ [][CalculateDelay]_vars

InitClassify ==
    /\ ClassifyInit /\ RetryIdle /\ BreakerIdle /\ CounterIdle /\ FetchIdle
    /\ NormalizeIdle /\ StoreIdle /\ RaceIdle /\ SpendingIdle
    /\ DelayIdle /\ SeqIdle

SpecClassify == InitClassify /\ [][Classify]_vars

InitSeq ==
    /\ SeqInit /\ RetryIdle /\ BreakerIdle /\ CounterIdle /\ FetchIdle
    /\ NormalizeIdle /\ StoreIdle /\ RaceIdle /\ SpendingIdle
    /\ DelayIdle /\ ClassifyIdle

SpecSeq == InitSeq /\ [][SeqNext]_vars

\* ------------------------------------------------------------------------
\* Claims about the retry wrapper (SpecRetry)
\* ------------------------------------------------------------------------
LastOf(seq) == seq[Len(seq)]

\* C1: with max_retries = N the wrapped function is invoked at most N+1 times
\* in one call; every invocation but the last one failed with a retryable
\* error (so it is invoked again only after a retryable failure, and never after
\* a success); a success is what the wrapper returns; and when all N+1
\* invocations fail the wrapper raises the error of the last invocation.
C1_RetryContract ==
    /\ Len(r_hist) <= max_retries + 1
    /\ \A i \in 1 .. Len(r_hist) - 1 :
          ~r_hist[i].ok /\ IsRetryableError(r_hist[i].err)
    /\ (r_hist # <<>> /\ LastOf(r_hist).ok) =>
          r_pc = "returned" /\ r_result = LastOf(r_hist).value
    /\ r_pc = "returned" => r_hist # <<>> /\ LastOf(r_hist).ok
    /\ (Len(r_hist) = max_retries + 1 /\ ~LastOf(r_hist).ok) =>
          r_pc = "raised" /\ r_raised = LastOf(r_hist).err
    /\ r_pc = "raised" => r_hist # <<>> /\ r_raised = LastOf(r_hist).err

\* All N+1 invocations failed (N >= 2) and the wrapper raised
C1_Witness ==
    /\ max_retries >= 2
    /\ Len(r_hist) = max_retries + 1
    /\ r_pc = "raised"
    /\ sleeps = max_retries

\* The latest HTTP request of robust_api_request has been handled by the wrapper
RequestHandled == wrapped = "make_request" /\ r_net # <<>> /\ r_pc # "idle"

\* The wrapper goes on to another request (it sleeps, or has slept and retries)
Reattempting == r_pc = "sleep" \/ (r_pc = "try" /\ attempt = Len(r_net))

\* The statuses the claim calls retryable
ClaimedRetryableStatus(s) == (500 <= s /\ s < 600) \/ s = 429 \/ s = 408

\* C2: after an HTTP error status, with retries left, robust_api_request
\* re-attempts the request if and only if the status is 5xx, 429 or 408; any
\* other 4xx ends the call at that request with no backoff sleep after it.
C2_RetryIffRetryableStatus ==
    (/\ RequestHandled
     /\ LastOf(r_net).kind = "response"
     /\ RaisesForStatus(LastOf(r_net).status)
     /\ Len(r_net) <= max_retries)
    => IF ClaimedRetryableStatus(LastOf(r_net).status)
         THEN Reattempting
         ELSE r_pc = "raised" /\ sleeps = Len(r_net) - 1

\* C3: a connection failure or a timeout of the HTTP request is retried until
\* the request succeeds or max_retries + 1 requests have been made.
C3_NetworkFailureRetried ==
    (/\ RequestHandled
     /\ LastOf(r_net).kind \in {"timeout", "connection_error"}
     /\ r_pc = "raised")
    => Len(r_net) = max_retries + 1

\* ------------------------------------------------------------------------
\* Claims about the circuit breaker (SpecBreaker)
\* ------------------------------------------------------------------------
\* This step is a call through the wrapper of f
CallThrough(f) == b_last'.seq # b_last.seq /\ b_last'.f = f

\* C4: a breaker with failure_threshold T is open exactly when the wrapped
\* function has failed T times in a row since its last success or recovery
\* reset (it opens on the T-th such failure and never with fewer); a successful
\* call leaves the failure count at zero; is_open implies failures >= T.
C4_OpensAtThreshold ==
    \A f \in Breakers :
        /\ state[f].is_open => state[f].failures >= failure_threshold[f]
        /\ state[f].is_open <=> consec[f] = failure_threshold[f]
        /\ consec[f] <= failure_threshold[f]
        /\ (b_last.f = f /\ b_last.invoked /\ b_last.ok) => state[f].failures = 0

\* A breaker with threshold >= 2 has just been opened by a failing call
C4_Witness ==
    \E f \in Breakers :
        /\ failure_threshold[f] >= 2
        /\ b_last.f = f /\ b_last.invoked /\ ~b_last.ok
        /\ state[f].is_open

\* C5: a call through a breaker that is open and whose recovery timeout has
\* not elapsed is rejected (the "Circuit breaker is OPEN" APIError) without
\* invoking the wrapped function, and leaves the breaker as it was.
C5_OpenFailsFast ==
    [][\A f \in Breakers :
          (/\ CallThrough(f)
           /\ state[f].is_open
           /\ now - state[f].last_failure_time <= recovery_timeout[f])
          => (/\ b_last'.rejected
              /\ ~b_last'.invoked
              /\ state'[f] = state[f])]_vars

\* A call has been rejected by an open breaker
C5_Witness ==
    \E f \in Breakers :
        /\ b_last.f = f /\ b_last.rejected
        /\ state[f].is_open
        /\ now - state[f].last_failure_time <= recovery_timeout[f]

\* C6: a call made when the breaker is open and more than recovery_timeout has
\* passed since last_failure_time closes the breaker, restarts the failure
\* count from zero and invokes the wrapped function: afterwards the count is 0
\* (success) or 1 (failure), and the breaker is open again only if 1 >= T.
C6_RecoveryResets ==
    [][\A f \in Breakers :
          (/\ CallThrough(f)
           /\ state[f].is_open
           /\ now - state[f].last_failure_time > recovery_timeout[f])
          => (/\ b_last'.reset /\ b_last'.invoked /\ ~b_last'.rejected
              /\ state'[f].failures = (IF b_last'.ok THEN 0 ELSE 1)
              /\ state'[f].is_open <=> (~b_last'.ok /\ failure_threshold[f] <= 1)
              /\ consec'[f] = state'[f].failures)]_vars

\* A breaker with threshold >= 2 was reset by a call after its recovery timeout,
\* the call failed and the breaker stayed closed
C6_Witness ==
    \E f \in Breakers :
        /\ failure_threshold[f] >= 2
        /\ b_last.f = f /\ b_last.reset /\ b_last.invoked /\ ~b_last.ok
        /\ ~state[f].is_open /\ state[f].failures = 1

\* C8: a step that is not a call through f leaves f's failure count, last
\* failure time and open flag unchanged, and whether a call through f is
\* rejected depends on f's own state only.
C8_BreakersIndependent ==
    [][\A f \in Breakers :
          /\ ~CallThrough(f) => state'[f] = state[f]
          /\ CallThrough(f) =>
                (b_last'.rejected <=>
                    (/\ state[f].is_open
                     /\ now - state[f].last_failure_time <= recovery_timeout[f]))]_vars

\* One breaker is open while a call through the other one is admitted
C8_Witness ==
    \E f, g \in Breakers :
        /\ f # g
        /\ state[f].is_open /\ state[f].failures > 0
        /\ b_last.f = g /\ b_last.invoked /\ b_last.ok
        /\ ~state[g].is_open

\* ------------------------------------------------------------------------
\* Claims about APICallCounter under threads (SpecCounter)
\* ------------------------------------------------------------------------
AllThreadsDone == \A t \in Threads : t_pc[t] = "idle" /\ t_left[t] = 0

\* C7: when every thread has finished its record_call invocations, for each
\* api name total equals the number of record_call invocations made for it and
\* total = success + failed.
C7_NoLostIncrement ==
    AllThreadsDone =>
        \A api \in ApiNames :
            /\ StatsOf(api).total = invoked[api]
            /\ StatsOf(api).total = StatsOf(api).success + StatsOf(api).failed

\* ------------------------------------------------------------------------
\* Claims about fetch_data of the adapters
\* ------------------------------------------------------------------------
RangeOf(seq) == {seq[i] : i \in 1 .. Len(seq)}

\* C9: for each of the four adapters, when fetch_data ends with no live record
\* (every request failed, or the requests gave no record), what it returns is
\* the adapter's synthetic dataset and that dataset is not empty.
C9_FallbackToSyntheticData ==
    (f_pc = "done" /\ f_total = <<>>)
        => (f_result.kind = "mock" /\ f_result.records # <<>>)

\* The committees of the call that the upstream answers with their records
Fetchable == {c \in RangeOf(entities) : upstream[c] = "healthy"}

\* C10: when FECIngestion.fetch_data with a credential has gone over its
\* committees, every committee the upstream would answer has been requested
\* from the upstream and its records are in the result, whatever happened to
\* the other committees.
C10_OtherCommitteesStillFetched ==
    (f_pc = "done" /\ adapter = "fec" /\ api_key_set)
        => \A c \in Fetchable :
              /\ c \in f_requested
              /\ \A p \in 1 .. MaxUpstreamPages :
                    <<c, p>> \in RangeOf(f_result.records)

\* ------------------------------------------------------------------------
\* Claims about DataProcessor
\* ------------------------------------------------------------------------
\* C13: _normalize_company_name is idempotent: normalizing the normalized name
\* gives the normalized name again, for every name.
C13_NormalizeIdempotent ==
    n_pc = "done" => n_twice = n_once

\* C11: when two calls of _find_or_create_company in a row have the same name,
\* ticker and CIK, the second returns the Company the first returned and
\* creates no row, so the two create at most one row; from any store.
C11_SameCallSameCompany ==
    (s_prev # NoCallYet /\ s_prev.args = s_last.args)
        => (s_last.pk = s_prev.pk /\ ~s_last.created)

\* Two calls in a row with the same arguments on a store that had a row,
\* the first of which created a Company
C11_Witness ==
    /\ ~s_from_empty
    /\ s_prev # NoCallYet
    /\ s_prev.args = s_last.args
    /\ s_prev.created

\* C12: from an empty store, once "Apple Inc.", "APPLE CORPORATION" and
\* "apple computer" (and nothing else) have been resolved by name, all three
\* calls returned the same Company and the store holds exactly one Company.
C12_AppleNamesOneCompany ==
    (s_from_empty /\ DOMAIN s_returned = {<<n, NoValue, NoValue>> : n \in AppleNames})
        => /\ \A a, b \in DOMAIN s_returned : s_returned[a] = s_returned[b]
           /\ Len(companies) = 1

\* C14: after any sequence of process_fec_data, process_lobbying_data,
\* process_irs_data and process_sec_data from an empty store, no two Companies
\* have the same non-empty ticker and no two have the same non-empty CIK.
C14_TickerAndCikUnique ==
    s_from_empty =>
        \A i, j \in 1 .. Len(companies) :
            i # j => /\ ~(companies[i].ticker # NoValue
                          /\ companies[i].ticker = companies[j].ticker)
                     /\ ~(companies[i].cik # NoValue
                          /\ companies[i].cik = companies[j].cik)

\* C20: after any sequence of process_sec_data there is at most one
\* FinancialSummary per (company, fiscal_year), and for every pair a record
\* was processed for, its row holds the total_revenue and net_income of the
\* record processed last.
C20_OneSummaryLatestValues ==
    /\ \A i, j \in 1 .. Len(summaries) :
          (summaries[i].company = summaries[j].company
             /\ summaries[i].fiscal_year = summaries[j].fiscal_year) => i = j
    /\ \A key \in DOMAIN s_latest :
          \E k \in 1 .. Len(summaries) :
             /\ summaries[k].company = key[1]
             /\ summaries[k].fiscal_year = key[2]
             /\ summaries[k].total_revenue = s_latest[key].total_revenue
             /\ summaries[k].net_income = s_latest[key].net_income

\* Two records of one (company, fiscal_year) with different figures have been
\* processed
C20_Witness ==
    \E key \in DOMAIN s_latest :
        /\ s_latest[key].n >= 2
        /\ s_latest[key].total_revenue # s_latest[key].first_revenue

\* C15: when two runs have resolved at the same time a name, ticker and CIK no
\* Company matched before, at most one Company with that name exists.
C15_ConcurrentCreateAtomic ==
    (race_unseen /\ \A r \in Runs : race_pc[r] = "done")
        => Cardinality(ByNameIexact(companies, LookupNameOf[race_args[1]])) <= 1

\* ------------------------------------------------------------------------
\* Claims about SpendingCalculator
\* ------------------------------------------------------------------------
\* The rows of one kind that belong to a company: its own lobbying reports and
\* grants, and the contributions whose PAC name contains the first token of
\* the company's name, case-insensitively
BelongsTo(r, kind, c) ==
    /\ r.kind = kind
    /\ IF kind = "political"
         THEN /\ FirstPart(CompanyNames[c]) # <<>>
              /\ IContains(r.company_pac_id, FirstPart(CompanyNames[c]))
         ELSE r.company = c

\* A row lies in the range: by year or fiscal year for reports and grants, by
\* date for contributions; an absent bound does not restrict
WithinRange(r, start_date, end_date) ==
    IF r.kind = "political"
      THEN /\ (start_date # NoDate => DateLeq(start_date, r.date))
           /\ (end_date # NoDate => DateLeq(r.date, end_date))
      ELSE LET y == IF r.kind = "lobbying" THEN r.year ELSE r.fiscal_year
           IN  /\ (start_date # NoDate => start_date.year <= y)
               /\ (end_date # NoDate => y <= end_date.year)

AmountOf(kind) == IF kind = "lobbying" THEN "amount_spent" ELSE "amount"

\* The sum the claims expect for a company, a kind and a range
ExpectedSum(c, kind, start_date, end_date) ==
    SumOf({r \in sp_db : BelongsTo(r, kind, c) /\ WithinRange(r, start_date, end_date)},
          AmountOf(kind))

\* The total the claims expect for a company under a category and a range
ExpectedTotal(c, category, start_date, end_date) ==
    LET part(kind) == IF category \in {"all", kind}
                        THEN ExpectedSum(c, kind, start_date, end_date) ELSE 0
    IN  part("lobbying") + part("charitable") + part("political")

\* C16: calculate_company_spending(company, category) without a date range:
\* each of lobbying, charitable and political is the sum of all the company's
\* rows of that kind when category is 'all' or that kind and zero otherwise,
\* and total is their sum (with a date range too).
C16_CategorySums ==
    (sp_pc = "done" /\ sp_q.op = "calculate")
        => /\ sp_result.total
                = sp_result.lobbying + sp_result.charitable + sp_result.political
           /\ (sp_q.start_date = NoDate /\ sp_q.end_date = NoDate)
                => \A kind \in {"lobbying", "charitable", "political"} :
                      sp_result[kind] =
                          IF sp_q.category \in {"all", kind}
                            THEN ExpectedSum(sp_q.company, kind, NoDate, NoDate)
                            ELSE 0

\* A call for 'lobbying' without dates on a company that has a lobbying report
\* and a grant: the lobbying figure is given and the charitable one is zero
C16_Witness ==
    /\ sp_pc = "done"
    /\ sp_q.op = "calculate"
    /\ sp_q.category = "lobbying"
    /\ sp_q.start_date = NoDate
    /\ sp_q.end_date = NoDate
    /\ sp_result.lobbying > 0
    /\ sp_result.charitable = 0
    /\ \E r \in sp_db : BelongsTo(r, "charitable", sp_q.company)

\* C17: filter_companies_by_spending(queryset, min, max) returns exactly the
\* companies of queryset whose total t has min <= t when min is given and
\* t <= max when max is given, for every value of the bounds, 0 included.
C17_FilterWithinBounds ==
    (sp_pc = "done" /\ sp_q.op = "filter")
        => LET InBounds(c) ==
                   LET t == ExpectedTotal(c, "all", sp_q.start_date, sp_q.end_date)
                   IN  /\ (sp_q.min_spending # NoBound => sp_q.min_spending <= t)
                       /\ (sp_q.max_spending # NoBound => t <= sp_q.max_spending)
           IN  sp_result = SelectSeq(sp_q.queryset, InBounds)

\* C18: get_top_spenders(limit, category, range) returns at most limit
\* entries, none of a company whose total is zero, in order of non-increasing
\* total, and every company with a positive total that is left out has a total
\* no greater than that of every returned company.
C18_TopSpenders ==
    (sp_pc = "done" /\ sp_q.op = "top")
        => LET T(c) == ExpectedTotal(c, sp_q.category, sp_q.start_date, sp_q.end_date)
               returned == {sp_result[k].id : k \in 1 .. Len(sp_result)}
           IN  /\ Len(sp_result) <= sp_q.limit
               /\ \A k \in 1 .. Len(sp_result) :
                     /\ sp_result[k].total = T(sp_result[k].id)
                     /\ sp_result[k].total > 0
               /\ \A k \in 1 .. Len(sp_result) - 1 :
                     sp_result[k].total >= sp_result[k + 1].total
               /\ \A c \in CompanyIds \ returned :
                     T(c) > 0 => \A k \in 1 .. Len(sp_result) : T(c) <= sp_result[k].total

\* A call with limit 1 when two companies have spending and the one of lower
\* id spends less: the other is returned
C18_Witness ==
    /\ sp_pc = "done"
    /\ sp_q.op = "top"
    /\ sp_q.limit = 1
    /\ Len(sp_result) = 1
    /\ sp_result[1].id = 2
    /\ ExpectedTotal(1, sp_q.category, sp_q.start_date, sp_q.end_date) > 0

\* C19: with a date range, the lobbying and charitable figures are the sums
\* of the company's rows whose year or fiscal_year lies between start_date.year
\* and end_date.year, and the political figure is the sum of the matching
\* contributions dated between start_date and end_date, bounds included; an
\* absent bound does not restrict its side.
C19_DateRange ==
    (sp_pc = "done" /\ sp_q.op = "calculate" /\ sp_q.category = "all")
        => \A kind \in {"lobbying", "charitable", "political"} :
              sp_result[kind] = ExpectedSum(sp_q.company, kind, sp_q.start_date, sp_q.end_date)

\* A call with both bounds where one matching contribution of the start year
\* is dated before start_date and another lies in the range
C19_Witness ==
    /\ sp_pc = "done"
    /\ sp_q.op = "calculate"
    /\ sp_q.category = "all"
    /\ sp_q.start_date # NoDate
    /\ sp_q.end_date # NoDate
    /\ \E r \in sp_db :
          /\ BelongsTo(r, "political", sp_q.company)
          /\ r.date.year = sp_q.start_date.year
          /\ ~DateLeq(sp_q.start_date, r.date)
    /\ sp_result.political > 0


\* C21: each execution of the pagination loop of
\* _fetch_committee_contributions requests at most max_pages = 50 pages,
\* whatever the upstream says about further pages, each page requested follows
\* one page of results kept, and against an upstream whose page
\* MaxUpstreamPages reports itself as the last one the loop never asks for a
\* later page.
C21_PaginationBounded ==
    f_pc \in {"request", "inner_sleep"} =>
        /\ page \in 1 .. max_pages
        /\ Len(contributions) = page - 1
        /\ upstream[entities[f_idx]] = "healthy" => page <= MaxUpstreamPages

\* A call against an upstream that never reports a last page has returned
\* with the records of page max_pages
C21_Witness ==
    /\ f_pc = "done"
    /\ \E c \in 1 .. 4 :
          /\ upstream[c] = "runaway"
          /\ \E i \in 1 .. Len(f_total) : f_total[i] = <<c, max_pages>>


\* C22: with no credential configured (the key is empty or the adapter's
\* placeholder), fetch_data of the FEC and of the IRS adapter returns its
\* non-empty synthetic dataset, which is determined by the adapter and the year
\* alone (two calls with the same year return equal datasets), and has issued
\* no network request.
C22_NoCredentialSyntheticData ==
    (/\ f_pc = "done"
     /\ adapter \in {"fec", "irs"}
     /\ api_key \in {"", PlaceholderKey(adapter)})
    => /\ f_result.kind = "mock"
       /\ f_result.records = MockData(adapter, DefaultEntities(adapter), year)
       /\ f_result.records # <<>>
       /\ f_requested = {}

\* The IRS adapter, configured with its placeholder key, has returned
C22_Witness ==
    /\ f_pc = "done"
    /\ adapter = "irs"
    /\ api_key = PlaceholderKey("irs")
    /\ entities = <<1>>
    /\ f_result.kind = "mock"


\* ------------------------------------------------------------------------
\* Claims about calculate_delay (SpecDelay)
\* ------------------------------------------------------------------------
\* The attempt number the latest call of calculate_delay was made with
LastAttempt == d_attempt - 1

\* C23: with jitter disabled, calculate_delay(n) is 0 for n <= 0 and
\* min(max_delay, base_delay * exponential_base^(n-1)) for n >= 1 (1, 2 and 4
\* seconds for base 1 and factor 2; 5 seconds for n = 10 and max_delay 5), it
\* is never negative, and it is not smaller than the delay of attempt n - 1.
C23_DelayFormula ==
    (d_attempt > -1 /\ ~d_cfg.jitter) =>
        /\ LastAttempt <= 0 => d_delay = 0
        /\ LastAttempt >= 1 =>
              \/ /\ d_delay = d_cfg.max_delay
                 /\ d_cfg.base_delay * Power(d_cfg.exponential_base, LastAttempt - 1)
                       >= d_cfg.max_delay
              \/ /\ d_delay = d_cfg.base_delay * Power(d_cfg.exponential_base, LastAttempt - 1)
                 /\ d_delay <= d_cfg.max_delay
        /\ d_delay >= 0
        /\ d_attempt > 0 => d_prev <= d_delay
        /\ (d_cfg.base_delay = Seconds(1) /\ d_cfg.exponential_base = 2
              /\ d_cfg.max_delay = Seconds(60)) =>
              /\ LastAttempt = 1 => d_delay = Seconds(1)
              /\ LastAttempt = 2 => d_delay = Seconds(2)
              /\ LastAttempt = 3 => d_delay = Seconds(4)
        /\ (d_cfg.base_delay = Seconds(1) /\ d_cfg.exponential_base = 2
              /\ d_cfg.max_delay = Seconds(5) /\ LastAttempt = 10) =>
              d_delay = Seconds(5)

\* calculate_delay(10) has returned the cap of 5 seconds, after 4 seconds for
\* attempt 9, with jitter disabled
C23_Witness ==
    /\ ~d_cfg.jitter
    /\ d_cfg.base_delay = Seconds(1)
    /\ d_cfg.exponential_base = 2
    /\ d_cfg.max_delay = Seconds(5)
    /\ LastAttempt = 10
    /\ d_delay = Seconds(5)
    /\ d_prev = Seconds(5)


\* C24: when an execution of _fetch_committee_contributions ends for good at
\* the request for a page k > 1 (the request failed, or its answer ended the
\* loop), the records collected from pages 1..k-1 are among the records
\* fetch_data returns.
C24_EarlierPagesKept ==
    [][(/\ f_pc = "request"
        /\ page > 1
        /\ f_pc' \in {"enter", "done"})
       => \A i \in 1 .. Len(contributions) :
             \E j \in 1 .. Len(f_total') : f_total'[j] = contributions[i]]_vars


\* C25: when an attempt fails with a RateLimitError carrying retry_after = r,
\* the wait before the next attempt is max(d, r), d being the delay
\* calculate_delay gave for that attempt; robust_api_request takes r from the
\* Retry-After header of the 429 response when it is an integer and leaves it
\* absent when the header is missing or is not an integer.
C25_RetryAfterHonoured ==
    /\ (r_pc = "sleep" /\ last_exception.cls = "RateLimitError"
          /\ last_exception.retry_after # NoRetryAfter)
       => /\ \E u \in JitterDraws :
                r_wait.computed = calculate_delay(backoff, attempt + 1, u)
          /\ r_wait.slept >= r_wait.computed
          /\ r_wait.slept >= Seconds(last_exception.retry_after)
          /\ r_wait.slept \in {r_wait.computed, Seconds(last_exception.retry_after)}
    /\ (wrapped = "make_request" /\ r_net # <<>> /\ Len(r_hist) = Len(r_net)
          /\ LastOf(r_net).kind = "response" /\ LastOf(r_net).status = 429)
       => LET hdr == LastOf(r_net).retry_after
          IN  /\ last_exception.cls = "RateLimitError"
              /\ (hdr.present /\ hdr.integer)
                    => last_exception.retry_after = hdr.value
              /\ ~(hdr.present /\ hdr.integer)
                    => last_exception.retry_after = NoRetryAfter

\* A 429 answer with Retry-After: 2 to the first request, whose computed delay
\* is below 2 seconds, is followed by a wait of 2 seconds
C25_Witness ==
    /\ wrapped = "make_request"
    /\ r_pc = "sleep"
    /\ attempt = 0
    /\ LastOf(r_net).retry_after = HdrInt(2)
    /\ r_wait.computed < Seconds(2)
    /\ r_wait.slept = Seconds(2)


\* C26: in process_fec_data, process_lobbying_data, process_irs_data and
\* process_sec_data a record with no organization name (empty committee name,
\* client name that normalizes to empty, unmapped foundation EIN, empty SEC
\* company name) is skipped: it creates no Company, no FinancialSummary and no
\* dependent row, and no Company created by ingestion has an empty name.
C26_EmptyNameSkipped ==
    [][(s_ops' = s_ops + 1)
       => /\ p_skipped' => /\ companies' = companies
                           /\ summaries' = summaries
                           /\ dependents' = dependents
          /\ \A k \in 1 .. Len(companies') : companies'[k].name # <<>>]_vars

\* A record with no organization name has been skipped after a record that
\* created a Company and a dependent row
C26_Witness ==
    /\ p_skipped
    /\ s_ops = 2
    /\ Len(companies) = 1
    /\ dependents = 1


\* ------------------------------------------------------------------------
\* Claims about _classify_recipient (SpecClassify)
\* ------------------------------------------------------------------------
\* The table order the claim names
ClaimedOrder ==
    <<"Religious", "Education", "Healthcare", "Humanitarian", "Environment", "Arts">>

\* The positions in that order of the categories with a keyword in the text
MatchedIn(text) ==
    {i \in 1 .. Len(ClaimedOrder) :
        \E keyword \in category_keywords[ClaimedOrder[i]] : Contains(text, keyword)}

\* C27: _classify_recipient returns one of Religious, Education, Healthcare,
\* Humanitarian, Environment, Arts, Other; when the lower-cased recipient name
\* plus description contains keywords of several categories it returns the
\* earliest of them in that order, and when it contains none it returns Other.
C27_FirstMatchingCategory ==
    c_pc = "done" =>
        LET matched == MatchedIn(Lower(c_name \o <<" ">> \o c_description))
        IN  /\ c_category \in RangeOf(ClaimedOrder) \cup {"Other"}
            /\ matched = {} => c_category = "Other"
            /\ matched # {} =>
                  /\ c_category = ClaimedOrder[Min(matched)]
                  /\ \A i \in matched : ClaimedOrder[i] = c_category \/ i > Min(matched)

\* A text with keywords of Education and of Arts ('museum', 'art') was
\* classified as Education
C27_Witness ==
    /\ c_pc = "done"
    /\ c_category = "Education"
    /\ Cardinality(MatchedIn(Lower(c_name \o <<" ">> \o c_description))) >= 2
    /\ 6 \in MatchedIn(Lower(c_name \o <<" ">> \o c_description))

\* ------------------------------------------------------------------------
\* Claims about api_counter used sequentially (SpecSeq)
\* ------------------------------------------------------------------------
\* The sum of the counts of a dict of error types
RECURSIVE SumCounts(_, _)
SumCounts(dict, keys) ==
    IF keys = {} THEN 0
    ELSE LET k == CHOOSE x \in keys : TRUE
         IN  dict[k] + SumCounts(dict, keys \ {k})

\* The recorded failures and errors of an api name, zero when it has no entry
FailedOf(cs, api) == IF api \in DOMAIN cs THEN cs[api].failed ELSE 0
TotalOf(cs, api) == IF api \in DOMAIN cs THEN cs[api].total ELSE 0
ErrorsOf(es, api) == IF api \in DOMAIN es THEN SumCounts(es[api], DOMAIN es[api]) ELSE 0

\* C30: after any sequence of calls through track_api_calls and of
\* api_counter.reset made one after the other, every api name has
\* total = success + failed, its error counts sum to failed,
\* get_stats().total_calls is the sum of the totals and total_errors the sum of
\* the failed counts (the invocations and the failures since the latest
\* reset); an invocation adds exactly one to the total of its api name and
\* re-raises the exception of the function; reset leaves both tables empty.
C30_CounterConsistent ==
    /\ \A api \in DOMAIN q_calls :
          q_calls[api].total = q_calls[api].success + q_calls[api].failed
    /\ \A api \in ApiNames :
          /\ ErrorsOf(q_errors, api) = FailedOf(q_calls, api)
          /\ TotalOf(q_calls, api) = q_since[api].invoked
          /\ FailedOf(q_calls, api) = q_since[api].failed
    /\ get_stats(q_calls, q_errors).total_calls
          = SumCounts([api \in ApiNames |-> q_since[api].invoked], ApiNames)
    /\ get_stats(q_calls, q_errors).total_errors
          = SumCounts([api \in ApiNames |-> q_since[api].failed], ApiNames)
    /\ q_last.op = "call" =>
          /\ q_last.raised = IF q_last.outcome = "return" THEN "none" ELSE q_last.outcome
          /\ q_last.api \in DOMAIN q_calls
    /\ q_last.op = "reset" => (DOMAIN q_calls = {} /\ DOMAIN q_errors = {})

\* Two failed invocations and a successful one of the same api name, after a
\* reset
C30_Witness ==
    /\ q_ops = MaxTrackedOps
    /\ "fec" \in DOMAIN q_calls
    /\ q_calls["fec"] = [total |-> 3, success |-> 1, failed |-> 2]
    /\ q_last.op = "call"
    /\ q_last.raised = "ValueError"


\* C28: a call of _fetch_committee_contributions through its decorators made
\* while the FEC circuit breaker is open (and the recovery timeout has not
\* passed) issues no HTTP request, is not retried by retry_on_failure (no
\* backoff sleep follows: fetch_data goes on to the next committee or ends),
\* and is recorded in api_counter as exactly one failed call.
C28_OpenBreakerCallRejectedOnce ==
    [][(/\ f_pc = "enter"
        /\ fec_state.is_open
        /\ ~RecoveryElapsed(fec_state, now, FecRecoveryTimeout))
       => /\ f_pc' \in {"enter", "done"}
          /\ f_pc' = "enter" => (f_idx' = f_idx + 1 /\ o_attempt' = 0)
          /\ f_requested' = f_requested
          /\ f_total' = f_total
          /\ fec_state' = fec_state
          /\ tracked' = [tracked EXCEPT !.total = @ + 1, !.failed = @ + 1]]_vars

\* The call for the second committee was rejected by the breaker that the
\* failures of the first committee opened: no request was made for it
C28_Witness ==
    /\ f_pc = "enter"
    /\ f_idx = 3
    /\ fec_state.is_open
    /\ f_requested = {entities[1]}
    /\ tracked.total = FecFailureThreshold + 2
    /\ tracked.failed = FecFailureThreshold + 2


\* C29: a call rejected by an open breaker changes neither its failure count
\* nor its last-failure time, and, however many calls were rejected meanwhile,
\* a call made more than recovery_timeout after the wrapped function last
\* raised is admitted and reaches the wrapped function.
C29_RejectionsDoNotExtend ==
    [][\A f \in Breakers :
          CallThrough(f) =>
             /\ b_last'.rejected =>
                   /\ state'[f].failures = state[f].failures
                   /\ state'[f].last_failure_time = state[f].last_failure_time
             /\ (/\ b_since[f].failed_at > 0
                 /\ now - b_since[f].failed_at > recovery_timeout[f])
                => (b_last'.invoked /\ ~b_last'.rejected)]_vars

\* After calls were rejected, a call made after the recovery timeout reset the
\* breaker and the wrapped function ran
C29_Witness ==
    \E f \in Breakers :
        /\ b_last.f = f /\ b_last.reset /\ b_last.invoked /\ b_last.ok
        /\ b_since[f].rejected
        /\ now - b_since[f].failed_at > recovery_timeout[f]

====
